---------------------------- MODULE Spec2Model ----------------------------
(***************************************************************************)
(* Model of the statistical analysis engine of setec-ai-hub (src/api).     *)
(*                                                                         *)
(* Each subsystem of the engine is a pure function of its input.  A        *)
(* subsystem is modelled by two variables (its input and its result), an   *)
(* initial condition that draws the input from a bounded set, and one      *)
(* action per entry point that computes the result as the code does.       *)
(* There is one specification per subsystem; the variables of the other    *)
(* subsystems stay idle in it.                                             *)
(*                                                                         *)
(* Numbers.  Python floats are modelled by exact rationals [n, d] with     *)
(* d > 0 in lowest terms; the record with d = 0 is NaN (every comparison   *)
(* with it is false, every operation on it gives NaN).  Binary rounding of *)
(* floats is not modelled.                                                 *)
(***************************************************************************)
EXTENDS Integers, Sequences, FiniteSets, TLC

VARIABLES
    values,            \* stability: the input series (np.ndarray)
    stability_result,  \* stability: result of perform_stability_analysis
    df,                \* MSA: the uploaded table (pd.DataFrame), rows of cells
    msa_args,          \* MSA: the arguments of the call besides the table
    msa_call,          \* MSA: which entry point ran
    msa_result,        \* MSA: what the entry point returned
    dominant_args,     \* determine_dominant_variation: (ev, av, pv)
    dominant,          \* determine_dominant_variation: returned source
    capability_args,   \* capability: values, limits, normality result
    capability_result, \* capability: result / assembled document
    normality_args,    \* normality: the series under test
    normality_result,  \* normality: result of the A-D test / orchestrator
    primitive_args,    \* numeric primitives: the function called and its argument
    primitive_result,  \* numeric primitives: what the call returned or raised
    grr_percent,       \* classify_grr: the %GRR given
    grr_class,         \* classify_grr: the returned (classification, color, description)
    cp_df,             \* capability validator: the uploaded table
    cp_call,           \* capability validator: which entry point ran
    cp_result,         \* capability validator: what the entry point returned
    chart_args,        \* chart data: values, spec_limits, stability and normality results
    chart_data,        \* chart data: the list _build_chart_data returned
    calls,             \* concurrent calls: the frame of every call in progress (its own table and locals)
    process_state,     \* concurrent calls: the module-level objects of the engine
    post_request,      \* POST /api/analyze: the request being handled and what its collaborators will answer
    post_trace,        \* POST /api/analyze: the calls the handler made, in order
    files_row,         \* POST /api/analyze: the file's row of the files table
    analysis_results,  \* POST /api/analyze: the rows of the analysis_results table
    post_response,     \* POST /api/analyze: the response sent
    ppm_args,          \* PPM: the fitted distribution and the specification limits
    ppm_records        \* PPM: the record of the normality result and the one of the capability result

vars == <<values, stability_result, df, msa_args, msa_call, msa_result, dominant_args,
          dominant, capability_args, capability_result, normality_args,
          normality_result, primitive_args, primitive_result,
          grr_percent, grr_class,
          cp_df, cp_call, cp_result,
          chart_args, chart_data,
          calls, process_state,
          post_request, post_trace, files_row, analysis_results, post_response,
          ppm_args, ppm_records>>

stabilityVars == <<values, stability_result>>
msaVars == <<df, msa_args, msa_call, msa_result>>
dominantVars == <<dominant_args, dominant>>
capabilityVars == <<capability_args, capability_result>>
normalityVars == <<normality_args, normality_result>>
primitiveVars == <<primitive_args, primitive_result>>
grrVars == <<grr_percent, grr_class>>
capacidadVars == <<cp_df, cp_call, cp_result>>
chartVars == <<chart_args, chart_data>>
engineVars == <<calls, process_state>>
handlerVars == <<post_request, post_trace, files_row, analysis_results, post_response>>
ppmVars == <<ppm_args, ppm_records>>

\* The subsystems of the statistical core, and the ones around it.
coreVars == <<stabilityVars, msaVars, dominantVars, capabilityVars, normalityVars>>
restVars == <<primitiveVars, grrVars, capacidadVars, chartVars, engineVars, handlerVars, ppmVars>>

\* Python's None, for record- and number-valued fields.
None == [none |-> TRUE]

\* A subsystem that is not exercised by the specification at hand.
Idle == [idle |-> TRUE]

StabilityIdle == values = <<>> /\ stability_result = Idle
MsaIdle == df = Idle /\ msa_args = Idle /\ msa_call = Idle /\ msa_result = Idle
DominantIdle == dominant_args = Idle /\ dominant = Idle
CapabilityIdle == capability_args = Idle /\ capability_result = Idle
NormalityIdle == normality_args = Idle /\ normality_result = Idle
PrimitiveIdle == primitive_args = Idle /\ primitive_result = Idle
GrrIdle == grr_percent = Idle /\ grr_class = Idle
CapacidadIdle == cp_df = Idle /\ cp_call = Idle /\ cp_result = Idle
ChartIdle == chart_args = Idle /\ chart_data = Idle
EngineIdle == calls = Idle /\ process_state = Idle
HandlerIdle == post_request = Idle /\ post_trace = Idle /\ files_row = Idle /\ analysis_results = Idle /\ post_response = Idle
PpmIdle == ppm_args = Idle /\ ppm_records = Idle

CoreIdle == StabilityIdle /\ MsaIdle /\ DominantIdle /\ CapabilityIdle /\ NormalityIdle
RestIdle == PrimitiveIdle /\ GrrIdle /\ CapacidadIdle /\ ChartIdle /\ EngineIdle /\ HandlerIdle /\ PpmIdle

-----------------------------------------------------------------------------
(***************************************************************************)
(* Rational arithmetic standing for float arithmetic.                      *)
(***************************************************************************)
RECURSIVE GCD(_, _)
GCD(a, b) == IF b = 0 THEN a ELSE GCD(b, a % b)

Abs(x) == IF x < 0 THEN -x ELSE x

NaN == [n |-> 0, d |-> 0]

IsNaN(x) == x.d = 0

\* n/d in lowest terms with a positive denominator; anything over 0 is NaN.
Q(n, d) ==
    IF d = 0 THEN NaN
    ELSE LET g == GCD(Abs(n), Abs(d))
             s == IF d < 0 THEN -1 ELSE 1
         IN  [n |-> s * (n \div g), d |-> s * (d \div g)]

Int2Q(i) == [n |-> i, d |-> 1]

\* Sums and products cancel common factors first, so that intermediate
\* integers stay small.
QAdd(a, b) ==
    IF IsNaN(a) \/ IsNaN(b) THEN NaN
    ELSE LET g == GCD(a.d, b.d)
         IN  Q(a.n * (b.d \div g) + b.n * (a.d \div g), (a.d \div g) * b.d)
QNeg(a) == [n |-> -a.n, d |-> a.d]
QSub(a, b) == QAdd(a, QNeg(b))
QMul(a, b) ==
    IF IsNaN(a) \/ IsNaN(b) THEN NaN
    ELSE LET g1 == GCD(Abs(a.n), b.d)
             g2 == GCD(Abs(b.n), a.d)
         IN  IF a.n = 0 \/ b.n = 0 THEN Int2Q(0)
             ELSE Q((a.n \div g1) * (b.n \div g2), (a.d \div g2) * (b.d \div g1))
\* numpy division: x/0 is inf or nan; the model has no infinity, callers guard.
QDiv(a, b) ==
    IF IsNaN(a) \/ IsNaN(b) \/ b.n = 0 THEN NaN
    ELSE QMul(a, IF b.n < 0 THEN [n |-> -b.d, d |-> -b.n] ELSE [n |-> b.d, d |-> b.n])
QAbs(a) == [n |-> Abs(a.n), d |-> a.d]

QLt(a, b) == ~IsNaN(a) /\ ~IsNaN(b) /\ QSub(a, b).n < 0
QLe(a, b) == ~IsNaN(a) /\ ~IsNaN(b) /\ QSub(a, b).n <= 0
QGt(a, b) == QLt(b, a)
QGe(a, b) == QLe(b, a)
QEq(a, b) == ~IsNaN(a) /\ ~IsNaN(b) /\ QSub(a, b).n = 0

\* np.sign: -1, 0, 1 (NaN for NaN, which equals nothing, itself included).
QSign(a) == IF IsNaN(a) THEN NaN ELSE Int2Q(IF a.n > 0 THEN 1 ELSE IF a.n < 0 THEN -1 ELSE 0)

\* Python's max(0, x): x only when x > 0.
Max0(x) == IF QGt(x, Int2Q(0)) THEN x ELSE Int2Q(0)

RECURSIVE SumSeq(_)
SumSeq(s) == IF s = <<>> THEN Int2Q(0) ELSE QAdd(Head(s), SumSeq(Tail(s)))

\* The double 0.1, and the spacing of the doubles around it.  The spacing is
\* 2^-56; the model enlarges it so that the arithmetic stays within TLC's
\* integers, which keeps the order of the values it separates.
Tenth == Q(1, 10)
Ulp == Q(1, 10000)

\* np.mean of n copies of the double 0.1, as its distance from 0.1 in
\* spacings: (0.1 + 0.1 + 0.1) / 3 is 0.10000000000000002, the sums of six
\* and of seven copies divide to 0.09999999999999999, the others to 0.1.
MeanOfTenthsUlps == <<0, 0, 1, 0, 0, -1, -1, 0, 0>>

IsTenths(s) == Len(s) \in DOMAIN MeanOfTenthsUlps /\ \A i \in 1..Len(s) : s[i] = Tenth

\* np.mean: the mean of an empty array is NaN.  The sum and the division are
\* exact on the model's other values (small integers and their fractions); on
\* copies of 0.1 they round as the doubles do.
Mean(s) ==
    IF Len(s) = 0 THEN NaN
    ELSE IF IsTenths(s) THEN QAdd(Tenth, QMul(Int2Q(MeanOfTenthsUlps[Len(s)]), Ulp))
    ELSE QDiv(SumSeq(s), Int2Q(Len(s)))

IntSeq2Q(s) == [i \in 1..Len(s) |-> Int2Q(s[i])]

-----------------------------------------------------------------------------
(***************************************************************************)
(* Stability engine (I-MR charts), src/api/utils/stability_analysis.py.    *)
(***************************************************************************)
E2 == Q(266, 100)
D4 == Q(3267, 1000)
D3 == Int2Q(0)
d2 == Q(1128, 1000)

\* np.abs(np.diff(values)); values are rationals.
calculate_moving_ranges(vs) ==
    [i \in 1..(IF Len(vs) = 0 THEN 0 ELSE Len(vs) - 1) |-> QAbs(QSub(vs[i + 1], vs[i]))]

calculate_i_chart_limits(vs, mr) ==
    LET x_bar == Mean(vs)
        mr_bar == Mean(mr)
    IN  [center |-> x_bar,
         ucl |-> QAdd(x_bar, QMul(E2, mr_bar)),
         lcl |-> QSub(x_bar, QMul(E2, mr_bar)),
         mr_bar |-> mr_bar]

calculate_mr_chart_limits(mr) ==
    LET mr_bar == Mean(mr)
    IN  [center |-> mr_bar, ucl |-> QMul(D4, mr_bar), lcl |-> QMul(D3, mr_bar)]

\* Indices are 0-based as in the code: point k of the code is vs[k + 1].
RECURSIVE BeyondLimits(_, _, _, _)
BeyondLimits(vs, ucl, lcl, i) ==
    IF i >= Len(vs) THEN <<>>
    ELSE LET val == vs[i + 1]
             here == IF QGt(val, ucl) THEN <<[index |-> i, value |-> val, limit |-> "UCL"]>>
                     ELSE IF QLt(val, lcl) THEN <<[index |-> i, value |-> val, limit |-> "LCL"]>>
                     ELSE <<>>
         IN  here \o BeyondLimits(vs, ucl, lcl, i + 1)

find_ooc_points_i_chart(vs, limits) == BeyondLimits(vs, limits.ucl, limits.lcl, 0)

RECURSIVE AboveUcl(_, _, _)
AboveUcl(mr, ucl, i) ==
    IF i >= Len(mr) THEN <<>>
    ELSE (IF QGt(mr[i + 1], ucl) THEN <<[index |-> i, value |-> mr[i + 1]]>> ELSE <<>>)
         \o AboveUcl(mr, ucl, i + 1)

find_ooc_points_mr_chart(mr, limits) == AboveUcl(mr, limits.ucl, 0)

_calculate_sigma_zones(center, ucl, lcl) ==
    LET three_sigma == QSub(ucl, center)
        one_sigma == QDiv(three_sigma, Int2Q(3))
        two_sigma == QMul(Q(2, 3), three_sigma)
    IN  [center |-> center,
         s1_upper |-> QAdd(center, one_sigma),
         s1_lower |-> QSub(center, one_sigma),
         s2_upper |-> QAdd(center, two_sigma),
         s2_lower |-> QSub(center, two_sigma),
         s3_upper |-> ucl,
         s3_lower |-> lcl]

RuleResult(violations) == [cumple |-> Len(violations) = 0, violations |-> violations]
RulePass == [cumple |-> TRUE, violations |-> <<>>]

_rule_1_beyond_limits(vs, ucl, lcl) == RuleResult(BeyondLimits(vs, ucl, lcl, 0))

\* np.sign(np.diff(values)) as integers -1, 0, 1 (the model's series hold no NaN).
Directions(vs) ==
    [i \in 1..(IF Len(vs) = 0 THEN 0 ELSE Len(vs) - 1) |-> QSign(QSub(vs[i + 1], vs[i])).n]

TrendRecord(run_start, run_length, run_direction) ==
    [start |-> run_start, end |-> run_start + run_length,
     direction |-> IF run_direction > 0 THEN "up" ELSE "down"]

\* The loop of _rule_2_trending over directions[i], i = 1 .. len - 1 (0-based).
RECURSIVE Rule2Loop(_, _, _, _, _)
Rule2Loop(dirs, i, run_start, run_direction, run_length) ==
    IF i >= Len(dirs)
    THEN IF run_length >= 6 THEN <<TrendRecord(run_start, run_length, run_direction)>> ELSE <<>>
    ELSE IF dirs[i + 1] = run_direction /\ run_direction # 0
         THEN Rule2Loop(dirs, i + 1, run_start, run_direction, run_length + 1)
         ELSE (IF run_length >= 6
               THEN <<TrendRecord(run_start, run_length, run_direction)>> ELSE <<>>)
              \o Rule2Loop(dirs, i + 1, i, dirs[i + 1], 1)

_rule_2_trending(vs) ==
    IF Len(vs) < 7 THEN RulePass
    ELSE LET dirs == Directions(vs)
         IN  RuleResult(Rule2Loop(dirs, 1, 0, dirs[1], 1))

\* The run detector shared by rules 3, 4 and 5 over the boolean array in_zone.
RECURSIVE ZoneLoop(_, _, _, _)
ZoneLoop(in_zone, i, run_start, run_length) ==
    IF i >= Len(in_zone)
    THEN IF run_length >= 7
         THEN <<[start |-> run_start, end |-> run_start + run_length - 1]>> ELSE <<>>
    ELSE IF in_zone[i + 1]
         THEN ZoneLoop(in_zone, i + 1, IF run_length = 0 THEN i ELSE run_start, run_length + 1)
         ELSE (IF run_length >= 7
               THEN <<[start |-> run_start, end |-> run_start + run_length - 1]>> ELSE <<>>)
              \o ZoneLoop(in_zone, i + 1, run_start, 0)

_rule_3_stratification(vs, zones) ==
    IF Len(vs) < 7 THEN RulePass
    ELSE IF QEq(zones.s3_upper, zones.center) THEN RulePass
    ELSE RuleResult(ZoneLoop([i \in 1..Len(vs) |->
                                 QGe(vs[i], zones.s1_lower) /\ QLe(vs[i], zones.s1_upper)],
                             0, 0, 0))

_rule_4_upper_zone(vs, zones) ==
    IF Len(vs) < 7 THEN RulePass
    ELSE IF QEq(zones.s3_upper, zones.center) THEN RulePass
    ELSE RuleResult(ZoneLoop([i \in 1..Len(vs) |->
                                 QGe(vs[i], zones.s2_upper) /\ QLe(vs[i], zones.s3_upper)],
                             0, 0, 0))

_rule_5_lower_zone(vs, zones) ==
    IF Len(vs) < 7 THEN RulePass
    ELSE IF QEq(zones.s3_upper, zones.center) THEN RulePass
    ELSE RuleResult(ZoneLoop([i \in 1..Len(vs) |->
                                 QGe(vs[i], zones.s3_lower) /\ QLe(vs[i], zones.s2_lower)],
                             0, 0, 0))

AltRecord(run_start, end) == [start |-> run_start, end |-> end, pattern |-> "alternating"]

\* The loop of _rule_6_cyclic over directions[i], i = 0 .. len - 1 (0-based).
RECURSIVE Rule6Loop(_, _, _, _, _)
Rule6Loop(dirs, i, run_start, alternating_count, prev_direction) ==
    IF i >= Len(dirs)
    THEN IF alternating_count >= 7 THEN <<AltRecord(run_start, Len(dirs) - 1)>> ELSE <<>>
    ELSE IF dirs[i + 1] = 0
         THEN (IF alternating_count >= 7 THEN <<AltRecord(run_start, i - 1)>> ELSE <<>>)
              \o Rule6Loop(dirs, i + 1, run_start, 0, 0)
         ELSE IF prev_direction = 0
              THEN Rule6Loop(dirs, i + 1, i, 1, dirs[i + 1])
              ELSE IF dirs[i + 1] # prev_direction
                   THEN Rule6Loop(dirs, i + 1, run_start, alternating_count + 1, dirs[i + 1])
                   ELSE (IF alternating_count >= 7
                         THEN <<AltRecord(run_start, i - 1)>> ELSE <<>>)
                        \o Rule6Loop(dirs, i + 1, i, 1, dirs[i + 1])

_rule_6_cyclic(vs) ==
    IF Len(vs) < 8 THEN RulePass
    ELSE RuleResult(Rule6Loop(Directions(vs), 0, 0, 0, 0))

SideRecord(run_start, run_length, run_side) ==
    [start |-> run_start, end |-> run_start + run_length - 1,
     side |-> IF run_side > 0 THEN "above" ELSE "below"]

\* The loop of _rule_7_one_side over sides[i], i = 1 .. n - 1 (0-based).
RECURSIVE Rule7Loop(_, _, _, _, _)
Rule7Loop(sides, i, run_start, run_side, run_length) ==
    IF i >= Len(sides)
    THEN IF run_length >= 7 THEN <<SideRecord(run_start, run_length, run_side)>> ELSE <<>>
    ELSE IF sides[i + 1] = run_side /\ run_side # 0
         THEN Rule7Loop(sides, i + 1, run_start, run_side, run_length + 1)
         ELSE (IF run_length >= 7
               THEN <<SideRecord(run_start, run_length, run_side)>> ELSE <<>>)
              \o Rule7Loop(sides, i + 1, i, sides[i + 1], 1)

\* A rule 7 without the guard on seven points, whose first run starts with a
\* count of three: five points on one side are enough for it.
_rule_7_one_side_run_of_five(vs, center) ==
    IF Len(vs) < 5 THEN RulePass
    ELSE RuleResult(Rule7Loop([i \in 1..Len(vs) |-> QSign(QSub(vs[i], center)).n], 1, 0,
                              QSign(QSub(vs[1], center)).n, 3))

_rule_7_one_side(vs, center) ==
    IF Len(vs) < 7 THEN RulePass
    ELSE LET sides == [i \in 1..Len(vs) |-> QSign(QSub(vs[i], center)).n]
         IN  RuleResult(Rule7Loop(sides, 1, 0, sides[1], 1))

evaluate_stability_rules(vs, limits) ==
    LET zones == _calculate_sigma_zones(limits.center, limits.ucl, limits.lcl)
    IN  [rule_1 |-> _rule_1_beyond_limits(vs, limits.ucl, limits.lcl),
         rule_2 |-> _rule_2_trending(vs),
         rule_3 |-> _rule_3_stratification(vs, zones),
         rule_4 |-> _rule_4_upper_zone(vs, zones),
         rule_5 |-> _rule_5_lower_zone(vs, zones),
         rule_6 |-> _rule_6_cyclic(vs),
         rule_7 |-> _rule_7_one_side(vs, limits.center)]

RuleNames == {"rule_1", "rule_2", "rule_3", "rule_4", "rule_5", "rule_6", "rule_7"}

\* Step 6 of perform_stability_analysis with the MR-chart test left out.
is_stable_ignoring_mr_chart(rules, i_ooc, mr_ooc) ==
    (\A r \in RuleNames : rules[r].cumple) /\ Len(i_ooc) = 0

\* Step 6 of perform_stability_analysis: the overall verdict.
is_stable_verdict(rules, i_ooc, mr_ooc) ==
    (\A r \in RuleNames : rules[r].cumple) /\ Len(i_ooc) = 0 /\ Len(mr_ooc) = 0

perform_stability_analysis(vs) ==
    LET mr == calculate_moving_ranges(vs)
        i_limits == calculate_i_chart_limits(vs, mr)
        mr_limits == calculate_mr_chart_limits(mr)
        i_ooc == find_ooc_points_i_chart(vs, i_limits)
        mr_ooc == find_ooc_points_mr_chart(mr, mr_limits)
        rules == evaluate_stability_rules(vs, i_limits)
        is_stable == is_stable_verdict(rules, i_ooc, mr_ooc)
        mr_bar == i_limits.mr_bar
    IN  [is_stable |-> is_stable,
         conclusion |-> IF is_stable THEN "Proceso Estable" ELSE "Proceso Inestable",
         i_chart |-> [center |-> i_limits.center, ucl |-> i_limits.ucl,
                      lcl |-> i_limits.lcl, mr_bar |-> mr_bar, ooc_points |-> i_ooc],
         mr_chart |-> [values |-> mr, center |-> mr_limits.center, ucl |-> mr_limits.ucl,
                       lcl |-> mr_limits.lcl, ooc_points |-> mr_ooc],
         rules |-> rules,
         sigma |-> IF QGt(mr_bar, Int2Q(0)) THEN QDiv(mr_bar, d2) ELSE Int2Q(0)]

\* Bound of the stability specification: the longest series drawn.
MaxSeriesLen == 8

\* The levels a point of a drawn series takes.
SeriesValues == {0, 1, 2}

RECURSIVE SeqsUpTo(_, _)
SeqsUpTo(S, n) ==
    IF n = 0 THEN {<<>>}
    ELSE LET shorter == SeqsUpTo(S, n - 1)
         IN  shorter \cup {Append(s, x) : s \in {t \in shorter : Len(t) = n - 1}, x \in S}

StabilityInputs == SeqsUpTo(SeriesValues, MaxSeriesLen)

InitStability ==
    /\ values \in StabilityInputs
    /\ stability_result = None
    /\ MsaIdle /\ DominantIdle /\ CapabilityIdle /\ NormalityIdle /\ RestIdle

PerformStabilityAnalysis ==
    /\ stability_result = None
    /\ stability_result' = perform_stability_analysis(IntSeq2Q(values))
    /\ UNCHANGED <<values, msaVars, dominantVars, capabilityVars, normalityVars, restVars>>

NextStability == PerformStabilityAnalysis

SpecStability == InitStability /\ [][NextStability]_vars

\* C1: in every result of perform_stability_analysis, is_stable is true exactly
\* when all seven rules have cumple = true and the ooc_points lists of the
\* I-chart and of the MR-chart are both empty.
C1_StabilitySoundness ==
    stability_result # None /\ stability_result # Idle =>
        (stability_result.is_stable <=>
            /\ \A r \in RuleNames : stability_result.rules[r].cumple
            /\ stability_result.i_chart.ooc_points = <<>>
            /\ stability_result.mr_chart.ooc_points = <<>>)

\* A series whose only alarm is on the MR chart: every rule passes, the I-chart
\* has no point out of control, and the process is reported unstable.
C1_Witness ==
    /\ stability_result # None /\ stability_result # Idle
    /\ ~stability_result.is_stable
    /\ \A r \in RuleNames : stability_result.rules[r].cumple
    /\ stability_result.i_chart.ooc_points = <<>>
    /\ stability_result.mr_chart.ooc_points # <<>>

-----------------------------------------------------------------------------
(***************************************************************************)
(* Tables.  A DataFrame is [columns, rows]; a row is a sequence of cells   *)
(* aligned with the columns.  A cell is a float ([type |-> "float", v]),   *)
(* possibly NaN (an empty spreadsheet cell), or a string ([type |-> "str", *)
(* s]) held as a sequence of one-character strings so that strip(),        *)
(* replace() and float() act on its text.                                  *)
(***************************************************************************)
FloatCell(q) == [type |-> "float", v |-> q]
StrCell(s) == [type |-> "str", s |-> s]
NaNCell == FloatCell(NaN)

\* pd.isna(value): NaN is missing, an infinity is not.
IsNa(cell) == cell.type = "float" /\ cell.v = NaN

Whitespace == {" "}

RECURSIVE LStrip(_)
LStrip(s) == IF s # <<>> /\ Head(s) \in Whitespace THEN LStrip(Tail(s)) ELSE s

RECURSIVE RStrip(_)
RStrip(s) ==
    IF s # <<>> /\ s[Len(s)] \in Whitespace THEN RStrip(SubSeq(s, 1, Len(s) - 1)) ELSE s

\* str.strip()
Strip(s) == LStrip(RStrip(s))

\* str.replace(',', '.')
ReplaceComma(s) == [i \in 1..Len(s) |-> IF s[i] = "," THEN "." ELSE s[i]]

DigitValue ==
    [c \in {"0", "1", "2", "3", "4", "5", "6", "7", "8", "9"} |->
        CASE c = "0" -> 0 [] c = "1" -> 1 [] c = "2" -> 2 [] c = "3" -> 3 [] c = "4" -> 4
          [] c = "5" -> 5 [] c = "6" -> 6 [] c = "7" -> 7 [] c = "8" -> 8 [] c = "9" -> 9]

RECURSIVE DigitsValue(_)
DigitsValue(s) ==
    IF s = <<>> THEN 0 ELSE 10 * DigitsValue(SubSeq(s, 1, Len(s) - 1)) + DigitValue[s[Len(s)]]

RECURSIVE Pow10(_)
Pow10(k) == IF k = 0 THEN 1 ELSE 10 * Pow10(k - 1)

ValueError == [raised |-> "ValueError"]

\* float(text) on the literals the model's alphabet can spell: digits with at
\* most one point and at least one digit, and the words "inf" and "nan", with
\* surrounding whitespace allowed (signs and exponents are outside the
\* alphabet).
PyFloat(text) ==
    LET t == Strip(text)
        points == {i \in 1..Len(t) : t[i] = "."}
        others == {i \in 1..Len(t) : t[i] # "." /\ t[i] \notin DOMAIN DigitValue}
        digits == SelectSeq(t, LAMBDA c : c \in DOMAIN DigitValue)
        after == IF points = {} THEN 0 ELSE Len(t) - (CHOOSE i \in points : TRUE)
    IN  IF t = <<"i", "n", "f">> THEN [n |-> 1, d |-> 0]
        ELSE IF t = <<"n", "a", "n">> THEN NaN
        ELSE IF others # {} \/ Cardinality(points) > 1 \/ digits = <<>> THEN ValueError
        ELSE Q(DigitsValue(digits), Pow10(after))

\* The conversion both MSA modules apply to a string cell:
\* float(value.replace(',', '.').strip()).
ParseMeasurement(s) == PyFloat(Strip(ReplaceComma(s)))

\* Column names, with str(col).lower().strip() and the regular expressions of
\* MEASUREMENT_PATTERNS tabulated for the names the model uses.
ColumnNames ==
    {"Part", "pieza", "Operator", " OP ", "M1", "M2", "Medición 1", "rep2", "Notes", "Measure",
     "Valores", " VALORES ", "Datos", "Lote"}

LowerStrip(name) ==
    CASE name = "Part" -> "part"
      [] name = "pieza" -> "pieza"
      [] name = "Operator" -> "operator"
      [] name = " OP " -> "op"
      [] name = "M1" -> "m1"
      [] name = "M2" -> "m2"
      [] name = "Medición 1" -> "medición 1"
      [] name = "rep2" -> "rep2"
      [] name = "Notes" -> "notes"
      [] name = "Measure" -> "measure"
      [] name = "Valores" -> "valores"
      [] name = " VALORES " -> "valores"
      [] name = "Datos" -> "datos"
      [] name = "Lote" -> "lote"

PART_PATTERNS == {"part", "parte", "pieza"}
OPERATOR_PATTERNS == {"operator", "operador", "op"}

\* re.match over MEASUREMENT_PATTERNS: "measure" matches none of them.
MatchesMeasurementPattern(lowered) == lowered \in {"m1", "m2", "medición 1", "rep2"}

HasColumn(table, col) == \E i \in 1..Len(table.columns) : table.columns[i] = col

\* list(df.columns).index(col), 1-based.
ColumnIndex(table, col) ==
    CHOOSE i \in 1..Len(table.columns) :
        /\ table.columns[i] = col
        /\ \A j \in 1..(i - 1) : table.columns[j] # col

\* df[col]: the cells of a column, top to bottom.
Column(table, col) ==
    [r \in 1..Len(table.rows) |-> table.rows[r][ColumnIndex(table, col)]]

-----------------------------------------------------------------------------
(***************************************************************************)
(* MSA validator, src/api/utils/msa_validator.py.                          *)
(***************************************************************************)
MAX_ERRORS == 20

\* The None a column lookup returns when no column matches; a name no table uses.
NoColumn == "<None>"

\* The first column, in table order, whose lowered name is in patterns.
_find_column_by_patterns(table, patterns) ==
    LET hits == {i \in 1..Len(table.columns) : LowerStrip(table.columns[i]) \in patterns}
    IN  IF hits = {} THEN NoColumn
        ELSE table.columns[CHOOSE i \in hits : \A j \in hits : i <= j]

detect_measurement_columns(table) ==
    SelectSeq(table.columns, LAMBDA col : MatchesMeasurementPattern(LowerStrip(col)))

find_required_columns(table) ==
    LET part_col == _find_column_by_patterns(table, PART_PATTERNS)
        operator_col == _find_column_by_patterns(table, OPERATOR_PATTERNS)
        measurement_cols == detect_measurement_columns(table)
    IN  [mapping |-> [part |-> part_col, operator |-> operator_col,
                      measurements |-> measurement_cols],
         missing |-> (IF part_col = NoColumn THEN <<"Part">> ELSE <<>>)
                     \o (IF operator_col = NoColumn THEN <<"Operator">> ELSE <<>>)
                     \o (IF Len(measurement_cols) < 2 THEN <<"columnas de medición">> ELSE <<>>)]

validate_column_structure(table) ==
    LET found == find_required_columns(table)
    IN  IF found.missing # <<>>
        THEN [columns |-> None,
              error |-> [code |-> "MISSING_COLUMNS", details |-> found.missing]]
        ELSE [columns |-> found.mapping, error |-> None]

\* Whether a cell of a measurement column is reported as non-numeric.
IsNonNumeric(cell) ==
    /\ ~IsNa(cell)
    /\ cell.type = "str"
    /\ ParseMeasurement(cell.s) = ValueError

\* The (column, row) places of the given columns in scan order: column by
\* column, each top to bottom; rows are 0-based as enumerate() gives them.
RECURSIVE ScanOrder(_, _)
ScanOrder(table, cols) ==
    IF cols = <<>> THEN <<>>
    ELSE (IF HasColumn(table, Head(cols))
          THEN [r \in 1..Len(table.rows) |-> [col |-> Head(cols), idx |-> r - 1]]
          ELSE <<>>)
         \o ScanOrder(table, Tail(cols))

CellAt(table, place) == table.rows[place.idx + 1][ColumnIndex(table, place.col)]

\* The loop of validate_numeric_data over the places still to scan.
RECURSIVE NumericLoop(_, _, _)
NumericLoop(table, places, errors) ==
    IF places = <<>> \/ Len(errors) >= MAX_ERRORS THEN errors
    ELSE LET cell == CellAt(table, Head(places))
         IN  NumericLoop(table, Tail(places),
                 IF IsNonNumeric(cell)
                 THEN Append(errors, [column |-> Head(places).col,
                                      row |-> Head(places).idx + 2,
                                      value |-> cell.s])
                 ELSE errors)

\* validate_numeric_data without the limit on the errors listed.
validate_numeric_data_unlimited(table, measurement_cols) ==
    LET hits == SelectSeq(ScanOrder(table, measurement_cols),
                          LAMBDA place : IsNonNumeric(CellAt(table, place)))
    IN  [k \in 1..Len(hits) |-> [column |-> hits[k].col, row |-> hits[k].idx + 2,
                                  value |-> CellAt(table, hits[k]).s]]

validate_numeric_data(table, measurement_cols) ==
    NumericLoop(table, ScanOrder(table, measurement_cols), <<>>)

Letters ==
    <<"A", "B", "C", "D", "E", "F", "G", "H", "I", "J", "K", "L", "M",
      "N", "O", "P", "Q", "R", "S", "T", "U", "V", "W", "X", "Y", "Z">>

\* 0 -> A, 25 -> Z, 26 -> AA, as a sequence of letters.
RECURSIVE _column_index_to_letter(_)
_column_index_to_letter(col_idx) ==
    IF col_idx < 0 THEN <<>>
    ELSE _column_index_to_letter((col_idx \div 26) - 1) \o <<Letters[(col_idx % 26) + 1]>>

\* Whether a cell counts as empty: NaN/None, or a string of whitespace only.
IsEmptyCell(cell) == IsNa(cell) \/ (cell.type = "str" /\ Strip(cell.s) = <<>>)

\* The loop of validate_no_empty_cells; a reference is [letters, row] ("C5").
RECURSIVE EmptyLoop(_, _, _)
EmptyLoop(table, places, empty_cells) ==
    IF places = <<>> \/ Len(empty_cells) >= MAX_ERRORS THEN empty_cells
    ELSE EmptyLoop(table, Tail(places),
             IF IsEmptyCell(CellAt(table, Head(places)))
             THEN Append(empty_cells,
                         [letters |-> _column_index_to_letter(
                                          ColumnIndex(table, Head(places).col) - 1),
                          row |-> Head(places).idx + 2])
             ELSE empty_cells)

validate_no_empty_cells(table, measurement_cols, part_col, operator_col) ==
    LET cols_to_check == measurement_cols
                         \o (IF part_col # NoColumn THEN <<part_col>> ELSE <<>>)
                         \o (IF operator_col # NoColumn THEN <<operator_col>> ELSE <<>>)
    IN  EmptyLoop(table, ScanOrder(table, cols_to_check), <<>>)

\* df[col].dropna().nunique()
NUnique(table, col) ==
    Cardinality({c \in {Column(table, col)[r] : r \in 1..Len(table.rows)} : ~IsNa(c)})

validate_minimum_data(table, columns) ==
    (IF columns.part # NoColumn /\ HasColumn(table, columns.part)
        /\ NUnique(table, columns.part) < 2
     THEN <<"INSUFFICIENT_PARTS">> ELSE <<>>)
    \o (IF columns.operator # NoColumn /\ HasColumn(table, columns.operator)
           /\ NUnique(table, columns.operator) < 2
        THEN <<"INSUFFICIENT_OPERATORS">> ELSE <<>>)
    \o (IF Len(columns.measurements) < 2 THEN <<"INSUFFICIENT_MEASUREMENTS">> ELSE <<>>)

validate_data_requirements(table, columns) ==
    LET errors == validate_minimum_data(table, columns)
    IN  IF errors # <<>> THEN [code |-> "INSUFFICIENT_DATA", details |-> errors] ELSE None

\* validate_msa_file with steps 2 and 3 exchanged: empty cells tested before
\* the numeric test.
validate_msa_file_empty_first(table) ==
    LET structure == validate_column_structure(table)
        columns == structure.columns
        numeric_errors == validate_numeric_data(table, columns.measurements)
        empty_cells == validate_no_empty_cells(table, columns.measurements,
                                               columns.part, columns.operator)
        req_error == validate_data_requirements(table, columns)
    IN  IF structure.error # None THEN [columns |-> None, error |-> structure.error]
        ELSE IF empty_cells # <<>>
        THEN [columns |-> None, error |-> [code |-> "EMPTY_CELLS", details |-> empty_cells]]
        ELSE IF numeric_errors # <<>>
        THEN [columns |-> None,
              error |-> [code |-> "NON_NUMERIC_DATA", details |-> numeric_errors]]
        ELSE IF req_error # None THEN [columns |-> None, error |-> req_error]
        ELSE [columns |-> columns, error |-> None]

validate_msa_file(table) ==
    LET structure == validate_column_structure(table)
        columns == structure.columns
        numeric_errors == validate_numeric_data(table, columns.measurements)
        empty_cells == validate_no_empty_cells(table, columns.measurements,
                                               columns.part, columns.operator)
        req_error == validate_data_requirements(table, columns)
    IN  IF structure.error # None THEN [columns |-> None, error |-> structure.error]
        ELSE IF numeric_errors # <<>>
        THEN [columns |-> None,
              error |-> [code |-> "NON_NUMERIC_DATA", details |-> numeric_errors]]
        ELSE IF empty_cells # <<>>
        THEN [columns |-> None, error |-> [code |-> "EMPTY_CELLS", details |-> empty_cells]]
        ELSE IF req_error # None THEN [columns |-> None, error |-> req_error]
        ELSE [columns |-> columns, error |-> None]

\* Bound of the validator specification: the most rows a drawn table has.
MaxRows == 2

\* Column layouts of the drawn tables: complete ones (plain and with aliases
\* behind an unrelated first column), one without a part column, one with a
\* single measurement column.
Layouts ==
    {<<"Part", "Operator", "M1", "M2">>,
     <<"Notes", "pieza", " OP ", "Medición 1", "rep2">>,
     <<"Operator", "M1", "M2">>,
     <<"pieza", " OP ", "Measure", "rep2">>}

\* What a cell of a drawn table may hold, by the name of its column.
CellsOfColumn(name) ==
    CASE name = "Part" -> {FloatCell(Int2Q(1)), FloatCell(Int2Q(2)), NaNCell}
      [] name = "pieza" -> {FloatCell(Int2Q(1)), FloatCell(Int2Q(2))}
      [] name \in {"Operator", " OP "} -> {StrCell(<<"a">>), StrCell(<<"b">>)}
      [] name = "M1" -> {FloatCell(Int2Q(1)), StrCell(<<" ", "1", ",", "5">>),
                         StrCell(<<"a", "b">>), StrCell(<<" ", " ">>), NaNCell}
      [] name = "M2" -> {FloatCell(Int2Q(2))}
      [] name = "Medición 1" -> {FloatCell(Int2Q(1)), StrCell(<<"a", "b">>)}
      [] name = "rep2" -> {FloatCell(Int2Q(2)), StrCell(<<"1", ".", "5", "a">>)}
      [] OTHER -> {StrCell(<<"a">>)}

CellsOf(layout, i) == CellsOfColumn(layout[i])

RECURSIVE RowsFrom(_, _)
RowsFrom(layout, i) ==
    IF i > Len(layout) THEN {<<>>}
    ELSE {<<cell>> \o rest : cell \in CellsOf(layout, i), rest \in RowsFrom(layout, i + 1)}

RowsOf(layout) == RowsFrom(layout, 1)

ValidatorTables ==
    UNION {{[columns |-> layout, rows |-> rows] : rows \in SeqsUpTo(RowsOf(layout), MaxRows)} :
           layout \in Layouts}

InitMsaValidate ==
    /\ df \in ValidatorTables
    /\ msa_args = None
    /\ msa_call = None
    /\ msa_result = None
    /\ StabilityIdle /\ DominantIdle /\ CapabilityIdle /\ NormalityIdle /\ RestIdle

ValidateMsaFile ==
    /\ msa_call = None
    /\ msa_call' = [fn |-> "validate_msa_file"]
    /\ msa_result' = validate_msa_file(df)
    /\ UNCHANGED <<df, msa_args, stabilityVars, dominantVars, capabilityVars, normalityVars, restVars>>

NextMsaValidate == ValidateMsaFile

SpecMsaValidate == InitMsaValidate /\ [][NextMsaValidate]_vars

\* The four check categories, each judged on its own for a table.  The three
\* cell-level categories are stated for the mapping that column detection
\* yields, whether or not the structure check accepts it.
FailsStructure(table) == validate_column_structure(table).error # None
FailsNumeric(table) ==
    validate_numeric_data(table, find_required_columns(table).mapping.measurements) # <<>>
FailsEmpty(table) ==
    LET m == find_required_columns(table).mapping
    IN  validate_no_empty_cells(table, m.measurements, m.part, m.operator) # <<>>
FailsMinimum(table) ==
    validate_data_requirements(table, find_required_columns(table).mapping) # None

EarliestFailure(table) ==
    IF FailsStructure(table) THEN "MISSING_COLUMNS"
    ELSE IF FailsNumeric(table) THEN "NON_NUMERIC_DATA"
    ELSE IF FailsEmpty(table) THEN "EMPTY_CELLS"
    ELSE IF FailsMinimum(table) THEN "INSUFFICIENT_DATA"
    ELSE "none"

Validated == msa_call # None /\ msa_call # Idle /\ msa_call.fn = "validate_msa_file"

\* C2: validate_msa_file reports the earliest failing category in the order
\* structure, numeric, empty cells, minimum data, and only that one; it returns
\* a column mapping with error None exactly when no category fails.
C2_FirstFailingCategory ==
    Validated =>
        /\ (EarliestFailure(df) = "none") <=> (msa_result.error = None)
        /\ msa_result.error = None => msa_result.columns = find_required_columns(df).mapping
        /\ msa_result.error # None =>
              /\ msa_result.columns = None
              /\ msa_result.error.code = EarliestFailure(df)

\* A table with a sound structure that fails the numeric, the empty-cell and
\* the minimum-data category at once, reported as NON_NUMERIC_DATA.
C2_Witness ==
    /\ Validated
    /\ ~FailsStructure(df) /\ FailsNumeric(df) /\ FailsEmpty(df) /\ FailsMinimum(df)
    /\ msa_result.error # None
    /\ msa_result.error.code = "NON_NUMERIC_DATA"

-----------------------------------------------------------------------------
(***************************************************************************)
(* ANOVA variance components, src/api/utils/msa_calculator.py.  Floats are *)
(* exact rationals here, so rounding error is outside the model; pandas    *)
(* reductions skip NaN as Series.mean() and Series.sum() do.               *)
(***************************************************************************)
\* n * 10^k <= d and n * 10^k < d for integers n, d and k >= 0, without
\* forming 10^k.
RECURSIVE LePow10(_, _, _)
LePow10(n, d, k) ==
    IF k = 0 THEN n <= d
    ELSE LePow10(n, (d - (d % 10)) \div 10, k - 1)

LtPow10(n, d, k) == LePow10(n, d - 1, k)

\* The float 10^-k, which no model rational spells without overflow.
Pow10Neg(k) == [pow10neg |-> k]
IsPow10Neg(x) == "pow10neg" \in DOMAIN x

\* x < 1e-k for a float x (False for NaN).
QLtPow10Neg(x, k) == ~IsNaN(x) /\ LtPow10(x.n, x.d, k)

NotNaN(s) == SelectSeq(s, LAMBDA x : ~IsNaN(x))

\* Series.mean(): the mean of the entries that are not NaN, NaN when none is.
PdMean(s) == Mean(NotNaN(s))

\* Series.sum(): the sum of the entries that are not NaN.
PdSum(s) == SumSeq(NotNaN(s))

QSquare(x) == QMul(x, x)

\* float(value) of a cell as both MSA modules convert it.
CellToFloat(cell) ==
    IF cell.type = "str" THEN ParseMeasurement(cell.s) ELSE cell.v

\* The long format: one record per row and measurement column, row by row.
RECURSIVE LongData(_, _, _, _, _)
LongData(table, part_col, operator_col, measurement_cols, r) ==
    IF r > Len(table.rows) THEN <<>>
    ELSE [j \in 1..Len(measurement_cols) |->
             [part |-> table.rows[r][ColumnIndex(table, part_col)],
              operator |-> table.rows[r][ColumnIndex(table, operator_col)],
              measurement |->
                  CellToFloat(table.rows[r][ColumnIndex(table, measurement_cols[j])])]]
         \o LongData(table, part_col, operator_col, measurement_cols, r + 1)

\* groupby keys: the distinct values of a field that are not NaN.
GroupKeys(long, field) == {long[i][field] : i \in 1..Len(long)} \ {NaNCell}

MeasurementsWhere(long, Keep(_)) ==
    LET kept == SelectSeq(long, Keep)
    IN  [i \in 1..Len(kept) |-> kept[i].measurement]

\* A set of floats as a sequence, for summing.
RECURSIVE SetToSeq(_)
SetToSeq(S) ==
    IF S = {} THEN <<>>
    ELSE LET x == CHOOSE y \in S : TRUE IN <<x>> \o SetToSeq(S \ {x})

\* sum(f(k) for k in keys) with the NaN terms skipped, as Series.sum() does.
PdSumOver(keys, F(_)) ==
    LET ks == SetToSeq(keys) IN PdSum([i \in 1..Len(ks) |-> F(ks[i])])

\* The Python loop "acc += f(k)" over keys: a NaN term makes the sum NaN.
PySumOver(keys, F(_)) ==
    LET ks == SetToSeq(keys) IN SumSeq([i \in 1..Len(ks) |-> F(ks[i])])

MaxInt(a, b) == IF a >= b THEN a ELSE b

\* A method-of-moments estimate kept as it comes, negative values included.
untruncated_estimate(x) == x

\* max(0, estimate): a negative (or NaN) estimate becomes 0.
truncated_estimate(x) == Max0(x)

\* "if variance_total < 1e-10: variance_total = 1e-10"
clamp_variance_total(variance_total) ==
    IF QLtPow10Neg(variance_total, 10) THEN Pow10Neg(10) ELSE variance_total

\* n_parts, n_operators, n_trials, n_total of the long format.
StudyInfo(long, n_trials) ==
    [n_operators |-> Cardinality(GroupKeys(long, "operator")),
     n_parts |-> Cardinality(GroupKeys(long, "part")),
     n_trials |-> n_trials,
     n_total |-> Len(long)]

\* The grand mean and the groupby means, by part, by operator and by
\* (part, operator) cell.
AnovaMeans(long) ==
    LET parts == GroupKeys(long, "part")
        operators == GroupKeys(long, "operator")
        cells == {<<long[i].part, long[i].operator>> : i \in 1..Len(long)}
                 \cap (parts \X operators)
    IN  [grand_mean |-> PdMean([i \in 1..Len(long) |-> long[i].measurement]),
         part_means |->
             [p \in parts |-> PdMean(MeasurementsWhere(long, LAMBDA e : e.part = p))],
         operator_means |->
             [o \in operators |->
                 PdMean(MeasurementsWhere(long, LAMBDA e : e.operator = o))],
         cell_means |->
             [c \in cells |->
                 PdMean(MeasurementsWhere(long,
                            LAMBDA e : e.part = c[1] /\ e.operator = c[2]))]]

\* The interaction term of one (part, operator) cell.
InteractionEffect(m, c) ==
    QSub(QSub(QSub(m.cell_means[c], m.grand_mean),
              QSub(m.part_means[c[1]], m.grand_mean)),
         QSub(m.operator_means[c[2]], m.grand_mean))

SumsOfSquares(long, info, m) ==
    LET ss_total ==
            PdSum([i \in 1..Len(long) |-> QSquare(QSub(long[i].measurement, m.grand_mean))])
        ss_parts ==
            QMul(Int2Q(info.n_operators * info.n_trials),
                 PdSumOver(DOMAIN m.part_means,
                           LAMBDA p : QSquare(QSub(m.part_means[p], m.grand_mean))))
        ss_operators ==
            QMul(Int2Q(info.n_parts * info.n_trials),
                 PdSumOver(DOMAIN m.operator_means,
                           LAMBDA o : QSquare(QSub(m.operator_means[o], m.grand_mean))))
        ss_interaction ==
            PySumOver(DOMAIN m.cell_means,
                      LAMBDA c : QMul(Int2Q(info.n_trials), QSquare(InteractionEffect(m, c))))
    IN  [parts |-> ss_parts, operators |-> ss_operators, interaction |-> ss_interaction,
         equipment |-> QSub(QSub(QSub(ss_total, ss_parts), ss_operators), ss_interaction),
         total |-> ss_total]

\* Mean squares: each sum of squares over max(degrees of freedom, 1).
MeanSquares(ss, info) ==
    LET df_parts == info.n_parts - 1
        df_operators == info.n_operators - 1
        df_interaction == df_parts * df_operators
        df_equipment == info.n_total - info.n_parts * info.n_operators
    IN  [parts |-> QDiv(ss.parts, Int2Q(MaxInt(df_parts, 1))),
         operators |-> QDiv(ss.operators, Int2Q(MaxInt(df_operators, 1))),
         interaction |-> QDiv(ss.interaction, Int2Q(MaxInt(df_interaction, 1))),
         equipment |-> QDiv(ss.equipment, Int2Q(MaxInt(df_equipment, 1)))]

VarianceComponents(ms, info) ==
    LET variance_repeatability == truncated_estimate(ms.equipment)
        variance_interaction ==
            truncated_estimate(QDiv(QSub(ms.interaction, ms.equipment), Int2Q(info.n_trials)))
        variance_operator ==
            truncated_estimate(QDiv(QSub(ms.operators, ms.interaction),
                                    Int2Q(info.n_parts * info.n_trials)))
        variance_reproducibility == QAdd(variance_operator, variance_interaction)
        variance_part ==
            truncated_estimate(QDiv(QSub(ms.parts, ms.interaction),
                                    Int2Q(info.n_operators * info.n_trials)))
        variance_total ==
            QAdd(QAdd(variance_part, variance_reproducibility), variance_repeatability)
    IN  [variance_repeatability |-> variance_repeatability,
         variance_reproducibility |-> variance_reproducibility,
         variance_operator |-> variance_operator,
         variance_interaction |-> variance_interaction,
         variance_part |-> variance_part,
         variance_total |-> clamp_variance_total(variance_total),
         ms |-> ms,
         study_info |-> info]

AnovaOfLong(long, info) ==
    VarianceComponents(MeanSquares(SumsOfSquares(long, info, AnovaMeans(long)), info), info)

\* A cell float() rejects raises ValueError; an empty long format has no
\* 'part' column and raises KeyError.
calculate_anova_components(table, part_col, operator_col, measurement_cols) ==
    IF \E r \in 1..Len(table.rows), j \in 1..Len(measurement_cols) :
           CellToFloat(table.rows[r][ColumnIndex(table, measurement_cols[j])]) = ValueError
    THEN ValueError
    ELSE IF Len(table.rows) = 0 \/ Len(measurement_cols) = 0 THEN [raised |-> "KeyError"]
    ELSE AnovaOfLong(LongData(table, part_col, operator_col, measurement_cols, 1),
                     StudyInfo(LongData(table, part_col, operator_col, measurement_cols, 1),
                               Len(measurement_cols)))

\* Bound of the ANOVA specification: the most rows a drawn study has.
MaxAnovaRows == 4

\* The part and operator of the i-th row of a drawn study: two parts crossed
\* with two operators first, a third part after them.
DesignPart(i) == FloatCell(Int2Q(IF i \in {1, 3} THEN 1 ELSE IF i \in {2, 4} THEN 2 ELSE 3))
DesignOperator(i) == StrCell(IF i \in {1, 4} THEN <<"a">> ELSE <<"b">>)

\* The two measurements of a row: floats, a decimal-comma string, an empty cell.
AnovaFirstCells == {FloatCell(Int2Q(0)), StrCell(<<"1", ",", "5">>)}
AnovaSecondCells == {FloatCell(Int2Q(0)), FloatCell(Int2Q(1)), NaNCell}

RECURSIVE AnovaRows(_)
AnovaRows(k) ==
    IF k = 0 THEN {<<>>}
    ELSE {Append(rows, <<DesignPart(k), DesignOperator(k), m1, m2>>) :
             rows \in AnovaRows(k - 1), m1 \in AnovaFirstCells, m2 \in AnovaSecondCells}

AnovaTables ==
    {[columns |-> <<"Part", "Operator", "M1", "M2">>, rows |-> rows] :
        rows \in UNION {AnovaRows(k) : k \in 1..MaxAnovaRows}}

InitAnova ==
    /\ df \in AnovaTables
    /\ msa_args = None
    /\ msa_call = None
    /\ msa_result = None
    /\ StabilityIdle /\ DominantIdle /\ CapabilityIdle /\ NormalityIdle /\ RestIdle

CalculateAnovaComponents ==
    /\ msa_call = None
    /\ msa_call' = [fn |-> "calculate_anova_components"]
    /\ msa_result' = calculate_anova_components(df, "Part", "Operator", <<"M1", "M2">>)
    /\ UNCHANGED <<df, msa_args, stabilityVars, dominantVars, capabilityVars, normalityVars, restVars>>

NextAnova == CalculateAnovaComponents

SpecAnova == InitAnova /\ [][NextAnova]_vars

AnovaDone ==
    /\ msa_call # None /\ msa_call # Idle
    /\ msa_call.fn = "calculate_anova_components"
    /\ "raised" \notin DOMAIN msa_result

NonNegative(x) == QGe(x, Int2Q(0))

\* |total - sum| <= 10^-k, where total is a float or the float 10^-j that the
\* clamp put in place of a sum below 10^-j.
WithinPow10Neg(total, sum, k) ==
    IF IsPow10Neg(total)
    THEN \/ total.pow10neg >= k
         \/ ~LtPow10(sum.n, sum.d * (Pow10(k - total.pow10neg) - 1), k)
    ELSE LET diff == QAbs(QSub(total, sum))
         IN  ~IsNaN(diff) /\ LePow10(diff.n, diff.d, k)

\* C4: every variance component calculate_anova_components reports is >= 0,
\* reproducibility is operator plus interaction, and the total equals
\* repeatability + reproducibility + part to within 1e-9.
C4_VarianceComponents ==
    AnovaDone =>
        /\ NonNegative(msa_result.variance_repeatability)
        /\ NonNegative(msa_result.variance_operator)
        /\ NonNegative(msa_result.variance_interaction)
        /\ NonNegative(msa_result.variance_reproducibility)
        /\ NonNegative(msa_result.variance_part)
        /\ IsPow10Neg(msa_result.variance_total) \/ NonNegative(msa_result.variance_total)
        /\ QEq(msa_result.variance_reproducibility,
               QAdd(msa_result.variance_operator, msa_result.variance_interaction))
        /\ WithinPow10Neg(msa_result.variance_total,
                          QAdd(QAdd(msa_result.variance_repeatability,
                                    msa_result.variance_reproducibility),
                               msa_result.variance_part), 9)

\* A crossed study whose interaction estimate is negative before truncation
\* and is reported as 0, next to a positive part component.
C4_Witness ==
    /\ AnovaDone
    /\ Len(df.rows) = 4
    /\ QLt(msa_result.ms.interaction, msa_result.ms.equipment)
    /\ QEq(msa_result.variance_interaction, Int2Q(0))
    /\ QGt(msa_result.variance_part, Int2Q(0))

\* The degenerate study: all measurements identical, the total clamped.
C4_WitnessIdentical ==
    /\ AnovaDone
    /\ Len(df.rows) = 4
    /\ IsPow10Neg(msa_result.variance_total)

-----------------------------------------------------------------------------
(***************************************************************************)
(* analyze_msa, src/api/utils/msa_calculator.py.  The steps after the      *)
(* variance components (metrics, operator statistics, chart data, report)  *)
(* sit inside the same try block; whether one of them raises is an input   *)
(* of the model.                                                           *)
(***************************************************************************)
\* _find_column and _find_measurement_columns repeat the validator's lookups
\* with the same patterns.
detect_columns(table) ==
    LET part_col == _find_column_by_patterns(table, PART_PATTERNS)
        operator_col == _find_column_by_patterns(table, OPERATOR_PATTERNS)
        measurement_cols == detect_measurement_columns(table)
    IN  IF part_col = NoColumn \/ operator_col = NoColumn \/ Len(measurement_cols) < 2
        THEN None
        ELSE [part |-> part_col, operator |-> operator_col,
              measurements |-> measurement_cols]

\* df.empty: no rows or no columns.
IsEmptyTable(table) == Len(table.columns) = 0 \/ Len(table.rows) = 0

ErrorCode(code) == [code |-> code]

\* analyze_msa whose column checks answer CALCULATION_ERROR like every other
\* failure.
analyze_msa_single_code(table, validated_columns, later_failure) ==
    LET columns == IF validated_columns # None THEN validated_columns
                   ELSE detect_columns(table)
        variance_components ==
            calculate_anova_components(table, columns.part, columns.operator,
                                       columns.measurements)
    IN  IF table = None \/ IsEmptyTable(table) \/ columns = None
           \/ ~HasColumn(table, columns.part) \/ ~HasColumn(table, columns.operator)
           \/ (\E j \in 1..Len(columns.measurements) :
                  ~HasColumn(table, columns.measurements[j]))
           \/ "raised" \in DOMAIN variance_components
           \/ later_failure
        THEN [output |-> None, error |-> ErrorCode("CALCULATION_ERROR")]
        ELSE [output |-> [results |-> variance_components], error |-> None]

analyze_msa(table, validated_columns, later_failure) ==
    LET columns == IF validated_columns # None THEN validated_columns
                   ELSE detect_columns(table)
        variance_components ==
            calculate_anova_components(table, columns.part, columns.operator,
                                       columns.measurements)
    IN  IF table = None \/ IsEmptyTable(table)
        THEN [output |-> None, error |-> ErrorCode("CALCULATION_ERROR")]
        ELSE IF columns = None
        THEN [output |-> None, error |-> ErrorCode("MISSING_COLUMNS")]
        ELSE IF \/ ~HasColumn(table, columns.part)
                \/ ~HasColumn(table, columns.operator)
                \/ \E j \in 1..Len(columns.measurements) :
                      ~HasColumn(table, columns.measurements[j])
        THEN [output |-> None, error |-> ErrorCode("MISSING_COLUMNS")]
        ELSE IF "raised" \in DOMAIN variance_components
        THEN [output |-> None, error |-> ErrorCode("CALCULATION_ERROR")]
        ELSE IF later_failure
        THEN [output |-> None, error |-> ErrorCode("CALCULATION_ERROR")]
        ELSE [output |-> [results |-> variance_components], error |-> None]

\* Bound of the analyze_msa specification: the most rows a drawn table has.
MaxAnalyzeRows == 1

\* No table, a table without columns, and tables of every layout.
AnalyzeTables ==
    {None, [columns |-> <<>>, rows |-> <<>>]}
    \cup UNION {{[columns |-> layout, rows |-> rows] :
                    rows \in SeqsUpTo(RowsOf(layout), MaxAnalyzeRows)} : layout \in Layouts}

\* The validated_columns argument: absent, or a mapping that names columns the
\* table may or may not have.
ValidatedColumnsChoices ==
    {None,
     [part |-> "Part", operator |-> "Operator", measurements |-> <<"M1", "M2">>],
     [part |-> "pieza", operator |-> " OP ", measurements |-> <<"Medición 1", "rep2">>],
     [part |-> "Part", operator |-> "Operator", measurements |-> <<"M1", "Measure">>]}

InitAnalyzeMsa ==
    /\ df \in AnalyzeTables
    /\ msa_args \in [validated_columns : ValidatedColumnsChoices, later_failure : BOOLEAN]
    /\ msa_call = None
    /\ msa_result = None
    /\ StabilityIdle /\ DominantIdle /\ CapabilityIdle /\ NormalityIdle /\ RestIdle

AnalyzeMsa ==
    /\ msa_call = None
    /\ msa_call' = [fn |-> "analyze_msa"]
    /\ msa_result' = analyze_msa(df, msa_args.validated_columns, msa_args.later_failure)
    /\ UNCHANGED <<df, msa_args, stabilityVars, dominantVars, capabilityVars, normalityVars, restVars>>

NextAnalyzeMsa == AnalyzeMsa

SpecAnalyzeMsa == InitAnalyzeMsa /\ [][NextAnalyzeMsa]_vars

Analyzed == msa_call # None /\ msa_call # Idle /\ msa_call.fn = "analyze_msa"

\* The mapping analyze_msa works with, None when detection fails.
MappingUsed ==
    IF msa_args.validated_columns # None THEN msa_args.validated_columns
    ELSE detect_columns(df)

MappedColumnAbsent ==
    LET m == MappingUsed
    IN  \/ ~HasColumn(df, m.part) \/ ~HasColumn(df, m.operator)
        \/ \E j \in 1..Len(m.measurements) : ~HasColumn(df, m.measurements[j])

\* A cell of a mapped measurement column that float() rejects.
UnparseableCell ==
    \E r \in 1..Len(df.rows), j \in 1..Len(MappingUsed.measurements) :
        CellToFloat(df.rows[r][ColumnIndex(df, MappingUsed.measurements[j])]) = ValueError

\* C3: analyze_msa returns (document, None) or (None, code): no table or an
\* empty one gives CALCULATION_ERROR; else failed detection or an absent
\* mapped column gives MISSING_COLUMNS; else a failure of the computation
\* (an unparseable cell among them) gives CALCULATION_ERROR; else a document.
C3_AnalyzeMsaOutcomes ==
    Analyzed =>
        /\ \/ msa_result.output # None /\ msa_result.error = None
           \/ /\ msa_result.output = None
              /\ msa_result.error \in {ErrorCode("MISSING_COLUMNS"),
                                       ErrorCode("CALCULATION_ERROR")}
        /\ IF df = None \/ IsEmptyTable(df)
           THEN msa_result.error = ErrorCode("CALCULATION_ERROR")
           ELSE IF MappingUsed = None \/ MappedColumnAbsent
           THEN msa_result.error = ErrorCode("MISSING_COLUMNS")
           ELSE IF UnparseableCell \/ msa_args.later_failure
           THEN msa_result.error = ErrorCode("CALCULATION_ERROR")
           ELSE msa_result.error = None

\* An unparseable measurement cell in a table whose columns are all found:
\* the failure is reported as CALCULATION_ERROR.
C3_Witness ==
    /\ Analyzed
    /\ df # None /\ ~IsEmptyTable(df)
    /\ MappingUsed # None /\ ~MappedColumnAbsent
    /\ UnparseableCell /\ ~msa_args.later_failure
    /\ msa_result = [output |-> None, error |-> ErrorCode("CALCULATION_ERROR")]

\* A validated mapping that names a column the table lacks: MISSING_COLUMNS.
C3_WitnessMissing ==
    /\ Analyzed
    /\ df # None /\ ~IsEmptyTable(df)
    /\ msa_args.validated_columns # None /\ MappedColumnAbsent
    /\ msa_result.error = ErrorCode("MISSING_COLUMNS")

\* A parsed table that yields a document.
C3_WitnessDocument ==
    /\ Analyzed
    /\ msa_result.error = None
    /\ msa_result.output # None

-----------------------------------------------------------------------------
(***************************************************************************)
(* determine_dominant_variation, src/api/utils/msa_calculator.py.          *)
(***************************************************************************)
determine_dominant_variation(ev, av, pv) ==
    IF ev > av /\ ev > pv THEN "repeatability"
    ELSE IF av > ev /\ av > pv THEN "reproducibility"
    ELSE "part_to_part"

\* The percentages a drawn call passes for each source.
Percentages == {0, 20, 40, 60, 80}

InitDominant ==
    /\ dominant_args \in [ev : Percentages, av : Percentages, pv : Percentages]
    /\ dominant = None
    /\ StabilityIdle /\ MsaIdle /\ CapabilityIdle /\ NormalityIdle /\ RestIdle

DetermineDominantVariation ==
    /\ dominant = None
    /\ dominant' = [source |-> determine_dominant_variation(dominant_args.ev,
                                                            dominant_args.av,
                                                            dominant_args.pv)]
    /\ UNCHANGED <<dominant_args, stabilityVars, msaVars, capabilityVars, normalityVars, restVars>>

NextDominant == DetermineDominantVariation

SpecDominant == InitDominant /\ [][NextDominant]_vars

\* The percentage of the source a call returned.
PercentOf(source) ==
    CASE source = "repeatability" -> dominant_args.ev
      [] source = "reproducibility" -> dominant_args.av
      [] source = "part_to_part" -> dominant_args.pv

\* C5: the returned source has the largest percentage, and among sources tied
\* for the largest the first in the order repeatability, reproducibility,
\* part_to_part is returned.
C5_DominantIsLargestWithTieOrder ==
    dominant # None =>
        LET ev == dominant_args.ev
            av == dominant_args.av
            pv == dominant_args.pv
        IN  dominant.source = IF ev >= av /\ ev >= pv THEN "repeatability"
                              ELSE IF av >= pv THEN "reproducibility"
                              ELSE "part_to_part"

\* What does hold of the code: a strict maximum among repeatability and
\* reproducibility is returned, every other case yields part_to_part.
C5_StrictMaximumOrPart ==
    dominant # None =>
        LET ev == dominant_args.ev
            av == dominant_args.av
            pv == dominant_args.pv
        IN  /\ (ev > av /\ ev > pv) => dominant.source = "repeatability"
            /\ (av > ev /\ av > pv) => dominant.source = "reproducibility"
            /\ (pv >= ev /\ pv >= av) => dominant.source = "part_to_part"

\* Repeatability and reproducibility tie above part-to-part and the call
\* returns part_to_part, the smallest of the three.
C5_TieReturnsSmallest ==
    /\ dominant # None
    /\ dominant_args.ev = dominant_args.av
    /\ dominant_args.ev > dominant_args.pv
    /\ dominant.source = "part_to_part"
    /\ PercentOf(dominant.source) < dominant_args.ev

-----------------------------------------------------------------------------
(***************************************************************************)
(* Capability indices, src/api/utils/capability_indices.py.                *)
(***************************************************************************)
D2_CONSTANT == Q(1128, 1000)

\* float('inf') as a limit; like NaN it is not finite.
Inf == [n |-> 1, d |-> 0]

\* np.isfinite
IsFinite(x) == x.d # 0

\* validate_spec_limits without the final comparison of the two limits.
validate_spec_limits_no_order(lei, les) ==
    LET missing == (IF lei = None THEN <<"LEI required">> ELSE <<>>)
                   \o (IF les = None THEN <<"LES required">> ELSE <<>>)
        not_finite == (IF ~IsFinite(lei) THEN <<"LEI not finite">> ELSE <<>>)
                      \o (IF ~IsFinite(les) THEN <<"LES not finite">> ELSE <<>>)
    IN  IF missing # <<>> THEN [valid |-> FALSE, errors |-> missing]
        ELSE IF not_finite # <<>> THEN [valid |-> FALSE, errors |-> not_finite]
        ELSE [valid |-> TRUE, errors |-> <<>>]

\* The error messages, by what they report.
validate_spec_limits(lei, les) ==
    LET missing == (IF lei = None THEN <<"LEI required">> ELSE <<>>)
                   \o (IF les = None THEN <<"LES required">> ELSE <<>>)
        not_finite == (IF ~IsFinite(lei) THEN <<"LEI not finite">> ELSE <<>>)
                      \o (IF ~IsFinite(les) THEN <<"LES not finite">> ELSE <<>>)
        order == IF QGe(lei, les) THEN <<"LEI must be below LES">> ELSE <<>>
    IN  IF missing # <<>> THEN [valid |-> FALSE, errors |-> missing]
        ELSE IF not_finite # <<>> THEN [valid |-> FALSE, errors |-> not_finite]
        ELSE [valid |-> Len(order) = 0, errors |-> order]

\* "if mr_bar <= 0" is False for NaN, which then divides to NaN.
calculate_sigma_within(mr_bar) ==
    IF QLe(mr_bar, Int2Q(0)) THEN Int2Q(0) ELSE QDiv(mr_bar, D2_CONSTANT)

RECURSIVE IsqrtFrom(_, _)
IsqrtFrom(x, r) == IF (r + 1) * (r + 1) > x THEN r ELSE IsqrtFrom(x, r + 1)

\* floor(x) of a float that is not NaN.
QFloor(x) == (x.n - (x.n % x.d)) \div x.d

\* sqrt(x) to two decimals, rounded down.
QSqrt(x) == IF IsNaN(x) THEN NaN ELSE Q(IsqrtFrom(QFloor(QMul(x, Int2Q(10000))), 0), 100)

\* np.std(values, ddof=1) for two values or more.
SampleStd(vs) ==
    LET mean == Mean(vs)
        squares == [i \in 1..Len(vs) |-> QSquare(QSub(vs[i], mean))]
    IN  QSqrt(QDiv(SumSeq(squares), Int2Q(Len(vs) - 1)))

calculate_sigma_overall(vs) ==
    IF Len(vs) < 2 THEN Int2Q(0)
    ELSE IF IsNaN(SampleStd(vs)) THEN Int2Q(0)
    ELSE SampleStd(vs)

\* calculate_cp whose guard lets sigma = 0 through to the division.
calculate_cp_strict_guard(lei, les, sigma) ==
    IF sigma = None \/ QLt(sigma, Int2Q(0)) THEN None
    ELSE QDiv(QSub(les, lei), QMul(Int2Q(6), sigma))

calculate_cp(lei, les, sigma) ==
    IF sigma = None \/ QLe(sigma, Int2Q(0)) THEN None
    ELSE QDiv(QSub(les, lei), QMul(Int2Q(6), sigma))

\* Python's min(a, b): b only when b < a.
PyMin(a, b) == IF QLt(b, a) THEN b ELSE a

\* Python's max(a, b): b only when b > a.
PyMax(a, b) == IF QGt(b, a) THEN b ELSE a

\* calculate_cpk taking the larger of the two one-sided indices.
calculate_cpk_max(mean, lei, les, sigma) ==
    IF sigma = None \/ QLe(sigma, Int2Q(0)) THEN [cpk |-> None, cpu |-> None, cpl |-> None]
    ELSE LET cpu == QDiv(QSub(les, mean), QMul(Int2Q(3), sigma))
             cpl == QDiv(QSub(mean, lei), QMul(Int2Q(3), sigma))
         IN  [cpk |-> PyMax(cpu, cpl), cpu |-> cpu, cpl |-> cpl]

calculate_cpk(mean, lei, les, sigma) ==
    IF sigma = None \/ QLe(sigma, Int2Q(0)) THEN [cpk |-> None, cpu |-> None, cpl |-> None]
    ELSE LET cpu == QDiv(QSub(les, mean), QMul(Int2Q(3), sigma))
             cpl == QDiv(QSub(mean, lei), QMul(Int2Q(3), sigma))
         IN  [cpk |-> PyMin(cpu, cpl), cpu |-> cpu, cpl |-> cpl]

calculate_pp(lei, les, sigma_overall) ==
    IF sigma_overall = None \/ QLe(sigma_overall, Int2Q(0)) THEN None
    ELSE QDiv(QSub(les, lei), QMul(Int2Q(6), sigma_overall))

calculate_ppk(mean, lei, les, sigma_overall) ==
    IF sigma_overall = None \/ QLe(sigma_overall, Int2Q(0))
    THEN [ppk |-> None, ppu |-> None, ppl |-> None]
    ELSE LET ppu == QDiv(QSub(les, mean), QMul(Int2Q(3), sigma_overall))
             ppl == QDiv(QSub(mean, lei), QMul(Int2Q(3), sigma_overall))
         IN  [ppk |-> PyMin(ppu, ppl), ppu |-> ppu, ppl |-> ppl]

\* The standard normal CDF, tabulated in units of 1e-7 at the integers from
\* -5 to 5 and constant in between (0 below -5).
NormalCdfTable ==
    [z \in -5..5 |->
        CASE z = -5 -> 3 [] z = -4 -> 317 [] z = -3 -> 13499 [] z = -2 -> 227501
          [] z = -1 -> 1586553 [] z = 0 -> 5000000 [] z = 1 -> 8413447
          [] z = 2 -> 9772499 [] z = 3 -> 9986501 [] z = 4 -> 9999683 [] z = 5 -> 9999997]

_normal_cdf(z) ==
    IF IsNaN(z) THEN NaN
    ELSE IF QFloor(z) < -5 THEN Int2Q(0)
    ELSE Q(NormalCdfTable[IF QFloor(z) > 5 THEN 5 ELSE QFloor(z)], 10000000)

\* int(round(p * 1_000_000)) for 0 <= p <= 1: halves go to the even neighbour.
PpmOf(p) ==
    LET scaled == QMul(p, Int2Q(1000000))
        low == QFloor(scaled)
        twice == QSub(QMul(Int2Q(2), scaled), Int2Q(2 * low))
    IN  IF QLt(twice, Int2Q(1)) THEN low
        ELSE IF QGt(twice, Int2Q(1)) THEN low + 1
        ELSE IF low % 2 = 0 THEN low ELSE low + 1

PpmRecord(below, above) ==
    [ppm_below_lei |-> below, ppm_above_les |-> above, ppm_total |-> below + above]

calculate_ppm_normal(mean, sigma, lei, les) ==
    IF sigma = None \/ QLe(sigma, Int2Q(0))
    THEN IF QLt(mean, lei) THEN PpmRecord(1000000, 0)
         ELSE IF QGt(mean, les) THEN PpmRecord(0, 1000000)
         ELSE PpmRecord(0, 0)
    ELSE PpmRecord(PpmOf(_normal_cdf(QDiv(QSub(lei, mean), sigma))),
                   PpmOf(QSub(Int2Q(1), _normal_cdf(QDiv(QSub(les, mean), sigma)))))

\* np.sort
RECURSIVE InsertSorted(_, _)
InsertSorted(s, x) ==
    IF s = <<>> THEN <<x>>
    ELSE IF QLe(x, Head(s)) THEN <<x>> \o s
    ELSE <<Head(s)>> \o InsertSorted(Tail(s), x)

RECURSIVE NpSort(_)
NpSort(s) == IF s = <<>> THEN <<>> ELSE InsertSorted(NpSort(Tail(s)), Head(s))

\* The distributions whose CDF is evaluated only at positive limits.
PositiveSupport == {"weibull", "lognormal", "gamma", "exponential"}
WholeLine == {"logistic", "extreme_value"}

\* A fitted distribution is held as its name and the values its CDF takes at
\* the two limits, cdf_lei <= cdf_les, both in [0, 1].
_calculate_ppm_from_distribution(fitted_dist, lei, les) ==
    LET zero == Int2Q(0)
        p_below == IF fitted_dist.name \in PositiveSupport
                   THEN IF QGt(lei, zero) THEN fitted_dist.cdf_lei ELSE zero
                   ELSE fitted_dist.cdf_lei
        p_above == IF fitted_dist.name \in PositiveSupport
                   THEN IF QGt(les, zero) THEN QSub(Int2Q(1), fitted_dist.cdf_les) ELSE zero
                   ELSE QSub(Int2Q(1), fitted_dist.cdf_les)
    IN  IF fitted_dist.name \notin PositiveSupport \cup WholeLine THEN PpmRecord(0, 0)
        ELSE PpmRecord(PpmOf(PyMax(zero, p_below)), PpmOf(PyMax(zero, p_above)))

\* The percentile part of the result for ten values or more.
NonNormalPercentiles(sorted_vals, lei, les) ==
    LET n == Len(sorted_vals)
        p0_135 == sorted_vals[MaxInt(0, (135 * n) \div 100000) + 1]
        p99_865 == sorted_vals[(IF n - 1 <= (99865 * n) \div 100000
                                THEN n - 1 ELSE (99865 * n) \div 100000) + 1]
        p50 == sorted_vals[(n \div 2) + 1]
    IN  [pp |-> IF QGt(p99_865, p0_135)
                THEN QDiv(QSub(les, lei), QSub(p99_865, p0_135)) ELSE None,
         ppk |-> IF QGt(p99_865, p50) /\ QGt(p50, p0_135)
                 THEN PyMin(QDiv(QSub(les, p50), QSub(p99_865, p50)),
                            QDiv(QSub(p50, lei), QSub(p50, p0_135)))
                 ELSE None,
         percentiles |-> [p0_135 |-> p0_135, p50 |-> p50, p99_865 |-> p99_865]]

calculate_capability_non_normal(vs, lei, les, fitted_dist) ==
    IF Len(vs) < 10
    THEN [method |-> "non_normal", ppk |-> None, ppm |-> None,
          note |-> "Datos insuficientes para cálculo no-normal"]
    ELSE [method |-> "non_normal",
          distribution |-> fitted_dist.name,
          pp |-> NonNormalPercentiles(NpSort(vs), lei, les).pp,
          ppk |-> NonNormalPercentiles(NpSort(vs), lei, les).ppk,
          percentiles |-> NonNormalPercentiles(NpSort(vs), lei, les).percentiles,
          ppm |-> _calculate_ppm_from_distribution(fitted_dist, lei, les)]

InvalidCapability(errors) ==
    [valid |-> FALSE, errors |-> errors,
     cp |-> None, cpk |-> None, pp |-> None, ppk |-> None]

\* sigma_within as calculate_capability_indices settles it: from MR-bar, or
\* from the stability result's own sigma when that gives exactly 0.
SigmaWithin(stability) ==
    IF QEq(calculate_sigma_within(stability.i_chart.mr_bar), Int2Q(0))
    THEN stability.sigma
    ELSE calculate_sigma_within(stability.i_chart.mr_bar)

UsesFittedDistribution(normality) ==
    /\ normality # None
    /\ ~normality.is_normal
    /\ normality.fitted_distribution # None

\* The result for valid limits, from the mean and the two sigmas.
CapabilityRecord(vs, lei, les, mean, sigma_within, sigma_overall, normality) ==
    LET base ==
            [valid |-> TRUE,
             cp |-> calculate_cp(lei, les, sigma_within),
             cpk |-> calculate_cpk(mean, lei, les, sigma_within).cpk,
             cpu |-> calculate_cpk(mean, lei, les, sigma_within).cpu,
             cpl |-> calculate_cpk(mean, lei, les, sigma_within).cpl,
             pp |-> calculate_pp(lei, les, sigma_overall),
             ppk |-> calculate_ppk(mean, lei, les, sigma_overall).ppk,
             ppu |-> calculate_ppk(mean, lei, les, sigma_overall).ppu,
             ppl |-> calculate_ppk(mean, lei, les, sigma_overall).ppl,
             sigma_within |-> sigma_within, sigma_overall |-> sigma_overall,
             lei |-> lei, les |-> les, mean |-> mean]
    IN  IF UsesFittedDistribution(normality)
        THEN base @@ [ppm |-> calculate_capability_non_normal(
                                  vs, lei, les, normality.fitted_distribution).ppm,
                      method |-> "non_normal",
                      non_normal |-> calculate_capability_non_normal(
                                         vs, lei, les, normality.fitted_distribution)]
        ELSE base @@ [ppm |-> calculate_ppm_normal(mean, sigma_overall, lei, les),
                      method |-> "normal"]

calculate_capability_indices(vs, lei, les, stability, normality) ==
    IF Len(vs) = 0 THEN InvalidCapability(<<"No hay datos">>)
    ELSE IF ~validate_spec_limits(lei, les).valid
    THEN InvalidCapability(validate_spec_limits(lei, les).errors)
    ELSE CapabilityRecord(vs, lei, les, Mean(vs), SigmaWithin(stability),
                          calculate_sigma_overall(vs), normality)

\* The capability part of build_capacidad_proceso_output: the capability
\* sub-object of results is present only for a valid capability result, and
\* the indices are not computed at all when a limit is None.
build_capacidad_proceso_output(vs, spec_limits, stability, normality) ==
    IF spec_limits # None /\ stability # None
       /\ spec_limits.lei # None /\ spec_limits.les # None
    THEN IF calculate_capability_indices(vs, spec_limits.lei, spec_limits.les,
                                         stability, normality).valid
         THEN [results |-> [stability |-> stability,
                            capability |-> calculate_capability_indices(
                                vs, spec_limits.lei, spec_limits.les, stability, normality)]]
         ELSE [results |-> [stability |-> stability]]
    ELSE [results |-> [stability |-> stability]]

\* Bound of the capability specification: the longest series drawn.  Ten
\* values are the least the non-normal percentile method accepts.
MaxCapLen == 10

\* The shapes of the drawn series: constant, alternating between two levels,
\* and cycling through three.
SeriesShapes == {"constant", "alternating", "cycling"}

SeriesOf(shape, n) ==
    [i \in 1..n |->
        Int2Q(CASE shape = "constant" -> 1
                [] shape = "alternating" -> 2 * (i % 2)
                [] shape = "cycling" -> i % 3)]

CapSeries == {SeriesOf(shape, n) : shape \in SeriesShapes, n \in 0..MaxCapLen}

LimitChoices == {None, NaN, Inf, Int2Q(0), Int2Q(1), Int2Q(3)}

NormalityChoices ==
    {None,
     [is_normal |-> TRUE, fitted_distribution |-> None],
     [is_normal |-> FALSE, fitted_distribution |-> None],
     [is_normal |-> FALSE,
      fitted_distribution |-> [name |-> "weibull", cdf_lei |-> Q(1, 4), cdf_les |-> Q(3, 4)]],
     [is_normal |-> FALSE,
      fitted_distribution |-> [name |-> "logistic", cdf_lei |-> Int2Q(0),
                               cdf_les |-> Int2Q(1)]]}

\* The part of perform_stability_analysis's result that the capability code
\* reads.
StabilityFor(vs) ==
    [i_chart |-> [mr_bar |-> perform_stability_analysis(vs).i_chart.mr_bar],
     sigma |-> perform_stability_analysis(vs).sigma]

InitCapability ==
    /\ capability_args \in [values : CapSeries, lei : LimitChoices, les : LimitChoices,
                            normality_result : NormalityChoices]
    /\ capability_result = None
    /\ StabilityIdle /\ MsaIdle /\ DominantIdle /\ NormalityIdle /\ RestIdle

CalculateCapabilityIndices ==
    /\ capability_result = None
    /\ capability_result' =
           [fn |-> "calculate_capability_indices",
            result |-> calculate_capability_indices(
                           capability_args.values, capability_args.lei, capability_args.les,
                           StabilityFor(capability_args.values),
                           capability_args.normality_result)]
    /\ UNCHANGED <<capability_args, stabilityVars, msaVars, dominantVars, normalityVars, restVars>>

BuildCapacidadProcesoOutput ==
    /\ capability_result = None
    /\ Len(capability_args.values) > 0
    /\ capability_result' =
           [fn |-> "build_capacidad_proceso_output",
            document |-> build_capacidad_proceso_output(
                             capability_args.values,
                             [lei |-> capability_args.lei, les |-> capability_args.les],
                             StabilityFor(capability_args.values),
                             capability_args.normality_result)]
    /\ UNCHANGED <<capability_args, stabilityVars, msaVars, dominantVars, normalityVars, restVars>>

NextCapability == CalculateCapabilityIndices \/ BuildCapacidadProcesoOutput

SpecCapability == InitCapability /\ [][NextCapability]_vars

IndicesComputed ==
    /\ capability_result # None /\ capability_result # Idle
    /\ capability_result.fn = "calculate_capability_indices"

DocumentBuilt ==
    /\ capability_result # None /\ capability_result # Idle
    /\ capability_result.fn = "build_capacidad_proceso_output"

ValidResult == IndicesComputed /\ capability_result.result.valid

IsPpmRecord(ppm) ==
    /\ ppm # None
    /\ ppm.ppm_total = ppm.ppm_below_lei + ppm.ppm_above_les
    /\ 0 <= ppm.ppm_below_lei /\ ppm.ppm_below_lei <= 1000000
    /\ 0 <= ppm.ppm_above_les /\ ppm.ppm_above_les <= 1000000

\* C6: every result with valid = True, of either method and for any sample
\* size, carries a ppm record whose total is the sum of its two parts, each
\* part between 0 and 1,000,000.
C6_PpmRecordInEveryValidResult ==
    ValidResult => IsPpmRecord(capability_result.result.ppm)

\* What does hold: a ppm entry that is present is a well-formed record, and
\* the normal method always has one.
C6_PpmRecordWhenPresent ==
    ValidResult =>
        /\ capability_result.result.ppm # None => IsPpmRecord(capability_result.result.ppm)
        /\ capability_result.result.method = "normal" => capability_result.result.ppm # None

\* A valid non-normal result for fewer than ten values: its ppm is None.
C6_ValidResultWithoutPpm ==
    /\ ValidResult
    /\ capability_result.result.method = "non_normal"
    /\ Len(capability_args.values) \in 2..9
    /\ capability_result.result.ppm = None

NonPositive(sigma) == QLe(sigma, Int2Q(0))

\* C7: with valid limits, Cp, Cpk, Cpu and Cpl are None exactly when
\* sigma_within <= 0, and Pp, Ppk, Ppu and Ppl exactly when sigma_overall <= 0.
C7_IndexNoneIffSigmaNonPositive ==
    ValidResult =>
        LET r == capability_result.result
        IN  /\ \A index \in {r.cp, r.cpk, r.cpu, r.cpl} :
                  (index = None) <=> NonPositive(r.sigma_within)
            /\ \A index \in {r.pp, r.ppk, r.ppu, r.ppl} :
                  (index = None) <=> NonPositive(r.sigma_overall)

\* A constant series under valid limits: both sigmas are 0, all indices None.
C7_Witness ==
    /\ ValidResult
    /\ Len(capability_args.values) >= 2
    /\ NonPositive(capability_result.result.sigma_within)
    /\ NonPositive(capability_result.result.sigma_overall)
    /\ capability_result.result.cp = None
    /\ capability_result.result.ppk = None

\* A varying series under valid limits: both sigmas positive, no index None.
C7_WitnessDefined ==
    /\ ValidResult
    /\ QGt(capability_result.result.sigma_within, Int2Q(0))
    /\ capability_result.result.cp # None
    /\ capability_result.result.ppl # None

\* C8: where the indices are defined (valid limits, sigma > 0),
\* Cpk <= Cp + 1e-3 and Ppk <= Pp + 1e-3, whatever the mean.
C8_CpkAtMostCp ==
    ValidResult =>
        LET r == capability_result.result
        IN  /\ QGt(r.sigma_within, Int2Q(0)) => QLe(r.cpk, QAdd(r.cp, Q(1, 1000)))
            /\ QGt(r.sigma_overall, Int2Q(0)) => QLe(r.ppk, QAdd(r.pp, Q(1, 1000)))

\* A process mean above the upper limit with both sigmas positive: Cpk and
\* Ppk are negative, Cp and Pp positive.
C8_Witness ==
    /\ ValidResult
    /\ QGt(capability_result.result.mean, capability_result.result.les)
    /\ QGt(capability_result.result.sigma_within, Int2Q(0))
    /\ QGt(capability_result.result.sigma_overall, Int2Q(0))
    /\ QLt(capability_result.result.cpk, Int2Q(0))
    /\ QLt(capability_result.result.ppk, Int2Q(0))
    /\ QGt(capability_result.result.cp, Int2Q(0))

\* Either limit missing, NaN or infinite, or lei >= les.
InvalidLimits ==
    \/ capability_args.lei = None \/ capability_args.les = None
    \/ ~IsFinite(capability_args.lei) \/ ~IsFinite(capability_args.les)
    \/ QGe(capability_args.lei, capability_args.les)

\* C9: with invalid limits calculate_capability_indices returns valid = False,
\* a non-empty error list and cp, cpk, pp, ppk all None and nothing else, and
\* the assembled document has no capability sub-object.
C9_InvalidLimitsRejected ==
    InvalidLimits =>
        /\ IndicesComputed =>
              /\ ~capability_result.result.valid
              /\ Len(capability_result.result.errors) > 0
              /\ capability_result.result.cp = None
              /\ capability_result.result.cpk = None
              /\ capability_result.result.pp = None
              /\ capability_result.result.ppk = None
              /\ DOMAIN capability_result.result
                     = {"valid", "errors", "cp", "cpk", "pp", "ppk"}
        /\ DocumentBuilt => "capability" \notin DOMAIN capability_result.document.results

\* Finite limits in the wrong order given to the assembly: the document comes
\* without a capability sub-object.
C9_Witness ==
    /\ DocumentBuilt
    /\ capability_args.lei # None /\ capability_args.les # None
    /\ IsFinite(capability_args.lei) /\ IsFinite(capability_args.les)
    /\ QGt(capability_args.lei, capability_args.les)
    /\ "capability" \notin DOMAIN capability_result.document.results

\* Valid limits given to the assembly: the capability sub-object is there.
C9_WitnessValid ==
    /\ DocumentBuilt
    /\ ~InvalidLimits
    /\ "capability" \in DOMAIN capability_result.document.results

-----------------------------------------------------------------------------
(***************************************************************************)
(* Normality analysis, src/api/utils/normality_tests.py.  A series is      *)
(* held as what the test reads off it: its length, whether its standard    *)
(* deviation is 0, its minimum, and its corrected statistic A2* in         *)
(* thousandths; the two transformation searches are held as what they find *)
(* for it.                                                                 *)
(***************************************************************************)
\* The statistics of the drawn series, in thousandths; 753 and 754 lie on
\* either side of the p-value 0.05.
A2Grid == {100, 200, 340, 600, 753, 754, 800, 1500}

\* _ad_p_value_normal at the grid, in millionths: the four branches of the
\* approximation (below 0.2, from 0.2, from 0.34, from 0.6), clipped to [0, 1].
_ad_p_value_normal(a2_star) ==
    Q(CASE a2_star = 100 -> 996149
        [] a2_star = 200 -> 884250
        [] a2_star = 340 -> 498233
        [] a2_star = 600 -> 119432
        [] a2_star = 753 -> 50055
        [] a2_star = 754 -> 49772
        [] a2_star = 800 -> 38327
        [] a2_star = 1500 -> 726, 1000000)

\* The significance threshold 0.01 in place of 0.05.
is_normal_at_one_percent(p_value) == QGe(p_value, Q(1, 100))

\* "p_value >= 0.05"
is_normal_at(p_value) == QGe(p_value, Q(5, 100))

\* series = [n, constant, min_val, a2_star]
anderson_darling_normal(series) ==
    IF series.n < 2 THEN ValueError
    ELSE IF series.constant
    THEN [statistic |-> Inf, p_value |-> Int2Q(0), is_normal |-> FALSE, alpha |-> Q(5, 100)]
    ELSE [statistic |-> Q(series.a2_star, 1000),
          p_value |-> _ad_p_value_normal(series.a2_star),
          is_normal |-> is_normal_at(_ad_p_value_normal(series.a2_star)),
          alpha |-> Q(5, 100)]

\* The shift box_cox_transform applies to a series with non-positive values.
BoxCoxShift(series) ==
    IF series.min_val <= 0 THEN Int2Q(Abs(series.min_val) + 1) ELSE None

\* box_cox_transform: best is [a2_star |-> the lowest statistic over the
\* lambda grid, lambda |-> the lambda that gave it, in tenths], None when no
\* lambda gave a testable series.
box_cox_transform(series, best) ==
    IF best = None
    THEN [lambda |-> Int2Q(1), shift |-> BoxCoxShift(series), success |-> FALSE,
          ad_after |-> Inf, p_value_after |-> Int2Q(0)]
    ELSE [lambda |-> Q(best.lambda, 10), shift |-> BoxCoxShift(series),
          success |-> anderson_darling_normal([n |-> series.n, constant |-> FALSE,
                                               a2_star |-> best.a2_star]).is_normal,
          ad_after |-> anderson_darling_normal([n |-> series.n, constant |-> FALSE,
                                                a2_star |-> best.a2_star]).statistic,
          p_value_after |-> anderson_darling_normal([n |-> series.n, constant |-> FALSE,
                                                     a2_star |-> best.a2_star]).p_value]

\* johnson_transform: best is the lowest statistic over the parameter grid;
\* None when the grid gave nothing and the initial parameters give a series
\* the test answers with p = 0.
johnson_transform(n, best) ==
    IF best = None
    THEN [success |-> is_normal_at(Int2Q(0)), ad_after |-> Inf, p_value_after |-> Int2Q(0)]
    ELSE [success |-> is_normal_at(_ad_p_value_normal(best.a2_star)),
          ad_after |-> Q(best.a2_star, 1000),
          p_value_after |-> _ad_p_value_normal(best.a2_star)]

NormalityRecord(is_normal, statistic, p_value, transformation, method) ==
    [is_normal |-> is_normal, ad_statistic |-> statistic, p_value |-> p_value,
     conclusion |-> IF is_normal THEN "Normal" ELSE "No Normal",
     transformation |-> transformation, method |-> method]

\* The 'transformation' entry of a result that reports on Box-Cox.
BoxCoxMetadata(bc_result, normalized_after) ==
    [applied |-> TRUE, type |-> "box_cox", lambda |-> bc_result.lambda,
     shift |-> bc_result.shift, normalized_after |-> normalized_after]

\* The 'transformation' entry of a result that reports on Johnson-SU (the
\* fitted parameters gamma, delta, xi, lambda are left out).
JohnsonMetadata ==
    [applied |-> TRUE, type |-> "johnson", family |-> "SU", normalized_after |-> TRUE]

\* analyze_normality with Johnson tried before Box-Cox.
analyze_normality_johnson_first(series, box_cox_best, johnson_best) ==
    IF anderson_darling_normal(series) = ValueError THEN ValueError
    ELSE IF anderson_darling_normal(series).is_normal
    THEN NormalityRecord(TRUE, anderson_darling_normal(series).statistic,
                         anderson_darling_normal(series).p_value, None, "original")
    ELSE IF johnson_transform(series.n, johnson_best).success
    THEN NormalityRecord(TRUE, johnson_transform(series.n, johnson_best).ad_after,
                         johnson_transform(series.n, johnson_best).p_value_after,
                         JohnsonMetadata, "johnson")
    ELSE IF box_cox_transform(series, box_cox_best).success
    THEN NormalityRecord(TRUE, box_cox_transform(series, box_cox_best).ad_after,
                         box_cox_transform(series, box_cox_best).p_value_after,
                         BoxCoxMetadata(box_cox_transform(series, box_cox_best), TRUE),
                         "box_cox")
    ELSE NormalityRecord(FALSE, anderson_darling_normal(series).statistic,
                         anderson_darling_normal(series).p_value,
                         BoxCoxMetadata(box_cox_transform(series, box_cox_best), FALSE),
                         "none")

analyze_normality(series, box_cox_best, johnson_best) ==
    IF anderson_darling_normal(series) = ValueError THEN ValueError
    ELSE IF anderson_darling_normal(series).is_normal
    THEN NormalityRecord(TRUE, anderson_darling_normal(series).statistic,
                         anderson_darling_normal(series).p_value, None, "original")
    ELSE IF box_cox_transform(series, box_cox_best).success
    THEN NormalityRecord(TRUE, box_cox_transform(series, box_cox_best).ad_after,
                         box_cox_transform(series, box_cox_best).p_value_after,
                         BoxCoxMetadata(box_cox_transform(series, box_cox_best), TRUE),
                         "box_cox")
    ELSE IF johnson_transform(series.n, johnson_best).success
    THEN NormalityRecord(TRUE, johnson_transform(series.n, johnson_best).ad_after,
                         johnson_transform(series.n, johnson_best).p_value_after,
                         JohnsonMetadata, "johnson")
    ELSE NormalityRecord(FALSE, anderson_darling_normal(series).statistic,
                         anderson_darling_normal(series).p_value,
                         BoxCoxMetadata(box_cox_transform(series, box_cox_best), FALSE),
                         "none")

\* The lengths of the drawn series: too short for the test, the shortest
\* tested, and the recommended minimum.
SeriesLengths == {1, 2, 8}

TransformOutcomes == {None} \cup {[a2_star |-> a] : a \in A2Grid}

\* The smallest value of the drawn series: negative, zero, positive.
SeriesMinima == {-3, 0, 2}

\* The lambdas picked by the Box-Cox search, in tenths: the ends of the grid
\* and the logarithm.
BoxCoxLambdas == {-20, 0, 20}

BoxCoxOutcomes == {None} \cup [a2_star : A2Grid, lambda : BoxCoxLambdas]

InitNormality ==
    /\ normality_args \in [series : [n : SeriesLengths, constant : BOOLEAN,
                                     min_val : SeriesMinima, a2_star : A2Grid],
                           box_cox_best : BoxCoxOutcomes,
                           johnson_best : TransformOutcomes]
    /\ normality_result = None
    /\ StabilityIdle /\ MsaIdle /\ DominantIdle /\ CapabilityIdle /\ RestIdle

AndersonDarlingNormal ==
    /\ normality_result = None
    /\ normality_result' = [fn |-> "anderson_darling_normal",
                            result |-> anderson_darling_normal(normality_args.series)]
    /\ UNCHANGED <<normality_args, stabilityVars, msaVars, dominantVars, capabilityVars, restVars>>

AnalyzeNormality ==
    /\ normality_result = None
    /\ normality_result' = [fn |-> "analyze_normality",
                            result |-> analyze_normality(normality_args.series,
                                                         normality_args.box_cox_best,
                                                         normality_args.johnson_best)]
    /\ UNCHANGED <<normality_args, stabilityVars, msaVars, dominantVars, capabilityVars, restVars>>

NextNormality == AndersonDarlingNormal \/ AnalyzeNormality

SpecNormality == InitNormality /\ [][NextNormality]_vars

NormalityReturned ==
    /\ normality_result # None /\ normality_result # Idle
    /\ normality_result.result # ValueError

\* The p-value of the series a result reports on: the original one for the
\* bare test and for methods 'original' and 'none', the transformed one for
\* 'box_cox' and 'johnson'.
PValueOfTested ==
    LET original == IF normality_args.series.constant THEN Int2Q(0)
                    ELSE _ad_p_value_normal(normality_args.series.a2_star)
    IN  IF normality_result.fn = "anderson_darling_normal" THEN original
        ELSE CASE normality_result.result.method \in {"original", "none"} -> original
               [] normality_result.result.method = "box_cox" ->
                      _ad_p_value_normal(normality_args.box_cox_best.a2_star)
               [] normality_result.result.method = "johnson" ->
                      _ad_p_value_normal(normality_args.johnson_best.a2_star)

\* C10: in every result of anderson_darling_normal and of analyze_normality,
\* is_normal holds exactly when the reported p_value is >= 0.05, and that
\* p_value is the one of the series actually tested.
C10_IsNormalIffPValue ==
    NormalityReturned =>
        /\ normality_result.result.is_normal
               <=> QGe(normality_result.result.p_value, Q(5, 100))
        /\ QEq(normality_result.result.p_value, PValueOfTested)

\* The original series fails, Box-Cox does not reach normality, Johnson
\* does: the result reports Johnson's p-value, which is >= 0.05.
C10_Witness ==
    /\ NormalityReturned
    /\ normality_result.fn = "analyze_normality"
    /\ normality_result.result.method = "johnson"
    /\ normality_result.result.is_normal
    /\ QLt(_ad_p_value_normal(normality_args.series.a2_star), Q(5, 100))

\* Nothing reaches normality: method 'none' with the original p-value.
C10_WitnessNone ==
    /\ NormalityReturned
    /\ normality_result.fn = "analyze_normality"
    /\ normality_result.result.method = "none"
    /\ ~normality_result.result.is_normal
    /\ ~normality_args.series.constant
    /\ normality_args.box_cox_best # None

AnalyzeNormalityReturned ==
    /\ NormalityReturned
    /\ normality_result.fn = "analyze_normality"

OriginalPasses ==
    /\ ~normality_args.series.constant
    /\ QGe(_ad_p_value_normal(normality_args.series.a2_star), Q(5, 100))

BoxCoxPasses ==
    /\ normality_args.box_cox_best # None
    /\ QGe(_ad_p_value_normal(normality_args.box_cox_best.a2_star), Q(5, 100))

JohnsonPasses ==
    /\ normality_args.johnson_best # None
    /\ QGe(_ad_p_value_normal(normality_args.johnson_best.a2_star), Q(5, 100))

FirstPassingStage ==
    IF OriginalPasses THEN "original"
    ELSE IF BoxCoxPasses THEN "box_cox"
    ELSE IF JohnsonPasses THEN "johnson"
    ELSE "none"

\* C11: analyze_normality reports the first of original, Box-Cox, Johnson-SU
\* that passes the normality test, with is_normal true; when none passes it
\* reports method 'none', is_normal false, the statistic and p-value of the
\* original series, and the Box-Cox lambda and shift in the transformation
\* metadata.
C11_FirstSuccessfulStage ==
    AnalyzeNormalityReturned =>
        /\ normality_result.result.method = FirstPassingStage
        /\ normality_result.result.is_normal <=> (FirstPassingStage # "none")
        /\ FirstPassingStage = "none" =>
             /\ IF normality_args.series.constant
                THEN /\ normality_result.result.ad_statistic = Inf
                     /\ QEq(normality_result.result.p_value, Int2Q(0))
                ELSE /\ QEq(normality_result.result.ad_statistic,
                            Q(normality_args.series.a2_star, 1000))
                     /\ QEq(normality_result.result.p_value,
                            _ad_p_value_normal(normality_args.series.a2_star))
             /\ normality_result.result.transformation.type = "box_cox"
             /\ ~normality_result.result.transformation.normalized_after
             /\ normality_args.box_cox_best # None =>
                    QEq(normality_result.result.transformation.lambda,
                        Q(normality_args.box_cox_best.lambda, 10))
             /\ IF normality_args.series.min_val > 0
                THEN normality_result.result.transformation.shift = None
                ELSE QEq(normality_result.result.transformation.shift,
                         Int2Q(1 - normality_args.series.min_val))

\* Nothing passes for a series with a negative minimum whose Box-Cox search
\* found a best lambda: method 'none' with that lambda and the shift.
C11_Witness ==
    /\ AnalyzeNormalityReturned
    /\ normality_result.result.method = "none"
    /\ normality_args.box_cox_best # None
    /\ normality_args.johnson_best # None
    /\ normality_args.series.min_val < 0
    /\ ~normality_args.series.constant

\* Box-Cox and Johnson-SU would both pass: Box-Cox is the one reported.
C11_WitnessBothPass ==
    /\ AnalyzeNormalityReturned
    /\ ~OriginalPasses /\ BoxCoxPasses /\ JohnsonPasses
    /\ normality_result.result.method = "box_cox"

\* C12: a call of the Anderson-Darling test or of analyze_normality never
\* raises for a statistical degeneracy; a series with n < 2 is answered by a
\* result, not by an exception.
C12_DegeneracyNeverRaised ==
    (normality_result # None /\ normality_result # Idle) =>
        normality_result.result # ValueError

\* A series of one value is given to the Anderson-Darling test and the call
\* ends in ValueError.
C12_InsufficientDataRaises ==
    /\ normality_result # None /\ normality_result # Idle
    /\ normality_args.series.n < 2
    /\ normality_result.fn = "anderson_darling_normal"
    /\ normality_result.result = ValueError

\* A constant series is not raised for: statistic +infinity, p-value 0.
C12_ConstantSeriesEncoded ==
    (NormalityReturned /\ normality_args.series.constant
       /\ normality_result.fn = "anderson_darling_normal") =>
        /\ normality_result.result.statistic = Inf
        /\ ~normality_result.result.is_normal

-----------------------------------------------------------------------------
(***************************************************************************)
(* Numeric primitives: _log_gamma (src/api/utils/distribution_fitting.py)  *)
(* and _norm_ppf (src/api/utils/capacidad_proceso_calculator.py).          *)
(* Arguments are drawn from grids; the logarithms and square roots of the   *)
(* approximations are tabulated on them, in thousandths.                    *)
(***************************************************************************)
\* _log_gamma at x = 1/2, 1, 3/2, ..., 10, in thousandths: the recursion to
\* x >= 7 followed by the series approximation.
LogGammaTable ==
    <<572, 0, -121, 0, 285, 693, 1201, 1792, 2454, 3178,
      3958, 4787, 5663, 6579, 7534, 8525, 9549, 10605, 11689, 12802>>

\* x = [n, d] with 2x an integer in -20 .. 20
_log_gamma(x) ==
    IF QLe(x, Int2Q(0)) THEN Inf
    ELSE Q(LogGammaTable[QMul(x, Int2Q(2)).n], 1000)

\* The rational approximation of _norm_ppf for p = 0.01, 0.02, ..., 0.50, in
\* thousandths.
NormPpfTable ==
    <<-2327, -2054, -1881, -1751, -1645, -1555, -1476, -1405, -1341, -1282,
      -1227, -1175, -1126, -1080, -1036, -994, -954, -915, -878, -841,
      -806, -772, -739, -706, -674, -643, -612, -582, -553, -524,
      -495, -467, -439, -412, -385, -358, -331, -305, -279, -253,
      -227, -202, -176, -151, -125, -100, -75, -50, -25, 0>>

\* p = [n, d] with 100p an integer
RECURSIVE _norm_ppf(_)
_norm_ppf(p) ==
    IF QLe(p, Int2Q(0)) \/ QGe(p, Int2Q(1)) THEN ValueError
    ELSE IF QGt(p, Q(1, 2)) THEN QNeg(_norm_ppf(QSub(Int2Q(1), p)))
    ELSE Q(NormPpfTable[QMul(p, Int2Q(100)).n], 1000)

\* Twice the arguments given to _log_gamma.
LogGammaHalves == -20 .. 20

\* A hundred times the arguments given to _norm_ppf.
NormPpfHundredths == -20 .. 120

InitPrimitives ==
    /\ primitive_args \in [fn : {"_log_gamma"}, x : {Q(h, 2) : h \in LogGammaHalves}]
                           \cup [fn : {"_norm_ppf"}, x : {Q(c, 100) : c \in NormPpfHundredths}]
    /\ primitive_result = None
    /\ CoreIdle /\ GrrIdle /\ CapacidadIdle /\ ChartIdle /\ EngineIdle /\ HandlerIdle /\ PpmIdle

LogGamma ==
    /\ primitive_result = None
    /\ primitive_args.fn = "_log_gamma"
    /\ primitive_result' = [value |-> _log_gamma(primitive_args.x)]
    /\ UNCHANGED <<primitive_args, coreVars, grrVars, capacidadVars, chartVars, engineVars, handlerVars, ppmVars>>

NormPpf ==
    /\ primitive_result = None
    /\ primitive_args.fn = "_norm_ppf"
    /\ primitive_result' = [value |-> _norm_ppf(primitive_args.x)]
    /\ UNCHANGED <<primitive_args, coreVars, grrVars, capacidadVars, chartVars, engineVars, handlerVars, ppmVars>>

NextPrimitives == LogGamma \/ NormPpf

SpecPrimitives == InitPrimitives /\ [][NextPrimitives]_vars

PrimitiveReturned == primitive_result # None /\ primitive_result # Idle

OutOfDomain ==
    \/ primitive_args.fn = "_log_gamma" /\ QLe(primitive_args.x, Int2Q(0))
    \/ primitive_args.fn = "_norm_ppf"
         /\ (QLe(primitive_args.x, Int2Q(0)) \/ QGe(primitive_args.x, Int2Q(1)))

\* C13: an out-of-domain argument to a numeric primitive (x <= 0 for
\* log_gamma, p <= 0 or p >= 1 for normal_ppf) fails with an error, it never
\* returns a value.
C13_OutOfDomainFails ==
    (PrimitiveReturned /\ OutOfDomain) => primitive_result.value = ValueError

\* _log_gamma called with x <= 0 has returned +infinity.
C13_LogGammaReturnsInfinity ==
    /\ PrimitiveReturned
    /\ primitive_args.fn = "_log_gamma"
    /\ QLe(primitive_args.x, Int2Q(0))
    /\ primitive_result.value = Inf

\* _norm_ppf does fail outside (0, 1), and answers inside it.
C13_NormPpfFailsOutsideUnitInterval ==
    (PrimitiveReturned /\ primitive_args.fn = "_norm_ppf") =>
        (primitive_result.value = ValueError <=> OutOfDomain)

-----------------------------------------------------------------------------
(***************************************************************************)
(* classify_grr, src/api/utils/msa_calculator.py.  %GRR reaches it rounded *)
(* to two decimals and is held here in hundredths of a percent; the        *)
(* descriptions are written without accents.                               *)
(***************************************************************************)
\* classify_grr with 30 excluded from 'marginal'.
classify_grr_strict_upper(percent) ==
    IF QLt(percent, Int2Q(10))
    THEN <<"aceptable", "#10B981", "Sistema de medicion aceptable">>
    ELSE IF QLt(percent, Int2Q(30))
    THEN <<"marginal", "#F59E0B",
           "Sistema de medicion marginal - puede ser aceptable dependiendo de la importancia">>
    ELSE <<"inaceptable", "#EF4444", "Sistema de medicion inaceptable - necesita mejoras">>

classify_grr(percent) ==
    IF QLt(percent, Int2Q(10))
    THEN <<"aceptable", "#10B981", "Sistema de medicion aceptable">>
    ELSE IF QLe(percent, Int2Q(30))
    THEN <<"marginal", "#F59E0B",
           "Sistema de medicion marginal - puede ser aceptable dependiendo de la importancia">>
    ELSE <<"inaceptable", "#EF4444", "Sistema de medicion inaceptable - necesita mejoras">>

\* %GRR from 0 to 40 in steps of 0.01.
GrrHundredths == 0 .. 4000

InitClassifyGrr ==
    /\ grr_percent \in {Q(h, 100) : h \in GrrHundredths}
    /\ grr_class = None
    /\ CoreIdle /\ PrimitiveIdle /\ CapacidadIdle /\ ChartIdle /\ EngineIdle /\ HandlerIdle /\ PpmIdle

ClassifyGrr ==
    /\ grr_class = None
    /\ grr_class' = classify_grr(grr_percent)
    /\ UNCHANGED <<grr_percent, coreVars, primitiveVars, capacidadVars, chartVars, engineVars, handlerVars, ppmVars>>

NextClassifyGrr == ClassifyGrr

SpecClassifyGrr == InitClassifyGrr /\ [][NextClassifyGrr]_vars

Classified == grr_class # None /\ grr_class # Idle

\* The %GRR at hand is tenths/10.
GrrIs(tenths) == grr_percent.n * 10 = tenths * grr_percent.d

\* C14: classify_grr gives exactly one of the three labels: aceptable iff
\* GRR% < 10, marginal iff 10 <= GRR% <= 30, inaceptable iff GRR% > 30; so
\* 9.9 is aceptable, 10.0 and 30.0 are marginal and 30.1 is inaceptable.
C14_ClassifyGrrBoundaries ==
    Classified =>
        /\ grr_class[1] \in {"aceptable", "marginal", "inaceptable"}
        /\ grr_class[1] = "aceptable" <=> grr_percent.n < 10 * grr_percent.d
        /\ grr_class[1] = "marginal" <=> /\ grr_percent.n >= 10 * grr_percent.d
                                         /\ grr_percent.n <= 30 * grr_percent.d
        /\ grr_class[1] = "inaceptable" <=> grr_percent.n > 30 * grr_percent.d
        /\ GrrIs(99) => grr_class[1] = "aceptable"
        /\ GrrIs(100) => grr_class[1] = "marginal"
        /\ GrrIs(300) => grr_class[1] = "marginal"
        /\ GrrIs(301) => grr_class[1] = "inaceptable"

\* %GRR = 30.0 has been classified marginal.
C14_Witness == Classified /\ GrrIs(300) /\ grr_class[1] = "marginal"

C14_WitnessLower == Classified /\ GrrIs(100) /\ grr_class[1] = "marginal"

-----------------------------------------------------------------------------
(***************************************************************************)
(* Capability validator, src/api/utils/capacidad_proceso_validator.py.     *)
(***************************************************************************)
\* MAX_ERRORS of capacidad_proceso_validator.py.
MAX_ERRORS_capacidad == 20

\* The first column, in table order, whose lowered and stripped name is
\* 'valores'.
_find_valores_column(table) ==
    LET hits == {i \in 1..Len(table.columns) : LowerStrip(table.columns[i]) = "valores"}
    IN  IF hits = {} THEN NoColumn
        ELSE table.columns[CHOOSE i \in hits : \A j \in hits : i <= j]

\* pd.api.types.is_numeric_dtype(df[col]): a column of floats only (NaN
\* included); one string cell makes the column an object column.
is_numeric_dtype(table, col) ==
    \A r \in 1..Len(table.rows) : Column(table, col)[r].type = "float"

\* The test _find_first_numeric_column applies to one column: a numeric
\* dtype, or a first non-null value that is a number or converts to one.
ColumnLooksNumeric(table, col) ==
    LET non_null == SelectSeq(Column(table, col), LAMBDA c : ~IsNa(c))
    IN  \/ is_numeric_dtype(table, col)
        \/ /\ Len(non_null) > 0
           /\ \/ non_null[1].type = "float"
              \/ ParseMeasurement(non_null[1].s) # ValueError

_find_first_numeric_column(table) ==
    LET hits == {i \in 1..Len(table.columns) : ColumnLooksNumeric(table, table.columns[i])}
    IN  IF hits = {} THEN NoColumn
        ELSE table.columns[CHOOSE i \in hits : \A j \in hits : i <= j]

detect_numeric_column(table) ==
    IF _find_valores_column(table) # NoColumn THEN _find_valores_column(table)
    ELSE _find_first_numeric_column(table)

validate_has_numeric_column(table) ==
    IF detect_numeric_column(table) = NoColumn
    THEN [column |-> NoColumn, error |-> [code |-> "NO_NUMERIC_COLUMN", details |-> <<>>]]
    ELSE [column |-> detect_numeric_column(table), error |-> None]

\* The loop of validate_empty_cells over the cells from index idx (0-based) on.
RECURSIVE EmptyRowsLoop(_, _, _)
EmptyRowsLoop(cells, idx, empty_rows) ==
    IF idx >= Len(cells) \/ Len(empty_rows) >= MAX_ERRORS_capacidad THEN empty_rows
    ELSE EmptyRowsLoop(cells, idx + 1,
             IF IsEmptyCell(cells[idx + 1]) THEN Append(empty_rows, idx + 2)
             ELSE empty_rows)

validate_empty_cells(table, column) == EmptyRowsLoop(Column(table, column), 0, <<>>)

\* Whether validate_numeric_values reports a cell.
IsNonNumericValue(cell) ==
    /\ ~IsNa(cell)
    /\ cell.type = "str"
    /\ ParseMeasurement(cell.s) = ValueError

RECURSIVE NonNumericRowsLoop(_, _, _)
NonNumericRowsLoop(cells, idx, non_numeric_rows) ==
    IF idx >= Len(cells) \/ Len(non_numeric_rows) >= MAX_ERRORS_capacidad
    THEN non_numeric_rows
    ELSE NonNumericRowsLoop(cells, idx + 1,
             IF IsNonNumericValue(cells[idx + 1]) THEN Append(non_numeric_rows, idx + 2)
             ELSE non_numeric_rows)

validate_numeric_values(table, column) ==
    NonNumericRowsLoop(Column(table, column), 0, <<>>)

\* float(value) of a native number, float(str(value).replace(',', '.').strip())
\* of a string; NaN cells and strings that do not convert are skipped.
RECURSIVE ExtractLoop(_)
ExtractLoop(cells) ==
    IF cells = <<>> THEN <<>>
    ELSE (IF IsNa(Head(cells)) THEN <<>>
          ELSE IF Head(cells).type = "float" THEN <<Head(cells).v>>
          ELSE IF ParseMeasurement(Head(cells).s) = ValueError THEN <<>>
          ELSE <<ParseMeasurement(Head(cells).s)>>)
         \o ExtractLoop(Tail(cells))

extract_numeric_values(table, column) == ExtractLoop(Column(table, column))

check_sample_size(vs) ==
    IF Len(vs) < 20 THEN [warning |-> "SAMPLE_SIZE_WARNING", count |-> Len(vs)] ELSE None

validate_capacidad_proceso_file(table) ==
    IF validate_has_numeric_column(table).error # None
    THEN [validated_data |-> None, error |-> validate_has_numeric_column(table).error]
    ELSE IF validate_empty_cells(table, validate_has_numeric_column(table).column) # <<>>
    THEN [validated_data |-> None,
          error |-> [code |-> "EMPTY_CELLS",
                     details |-> validate_empty_cells(
                                     table, validate_has_numeric_column(table).column)]]
    ELSE IF validate_numeric_values(table, validate_has_numeric_column(table).column) # <<>>
    THEN [validated_data |-> None,
          error |-> [code |-> "NON_NUMERIC_VALUES",
                     details |-> validate_numeric_values(
                                     table, validate_has_numeric_column(table).column)]]
    ELSE [validated_data |->
              [column_name |-> validate_has_numeric_column(table).column,
               values |-> extract_numeric_values(
                              table, validate_has_numeric_column(table).column),
               warnings |->
                   IF check_sample_size(extract_numeric_values(
                          table, validate_has_numeric_column(table).column)) # None
                   THEN <<check_sample_size(extract_numeric_values(
                              table, validate_has_numeric_column(table).column))>>
                   ELSE <<>>],
          error |-> None]

\* Bound of the capability validator specification: the most rows a drawn
\* table has.
MaxCpRows == 2

\* Column layouts of the drawn tables: a 'Valores' column alone and behind
\* another column under a differently written name, two layouts without one,
\* and a single text column.
CpLayouts ==
    {<<"Valores">>, <<"Lote", " VALORES ">>, <<"Datos", "Lote">>, <<"Lote", "Datos">>,
     <<"Lote">>}

\* What a cell of a drawn table may hold, by the name of its column.
CpCellsOfColumn(name) ==
    CASE name \in {"Valores", " VALORES "} ->
             {FloatCell(Int2Q(1)), StrCell(<<" ", "1", ",", "5">>),
              StrCell(<<"i", "n", "f">>), StrCell(<<"n", "a", "n">>),
              StrCell(<<"a", "b">>), StrCell(<<" ", " ">>), NaNCell}
      [] name = "Datos" -> {FloatCell(Int2Q(1)), StrCell(<<"2">>), StrCell(<<"a", "b">>), NaNCell}
      [] OTHER -> {StrCell(<<"a", "b">>), StrCell(<<"7">>)}

RECURSIVE CpRowsFrom(_, _)
CpRowsFrom(layout, i) ==
    IF i > Len(layout) THEN {<<>>}
    ELSE {<<cell>> \o rest : cell \in CpCellsOfColumn(layout[i]),
                             rest \in CpRowsFrom(layout, i + 1)}

\* Tables of at least one row (the dtype pandas gives the columns of a table
\* without rows depends on how the table was built).
CpTables ==
    UNION {{[columns |-> layout, rows |-> rows] :
               rows \in SeqsUpTo(CpRowsFrom(layout, 1), MaxCpRows) \ {<<>>}} :
           layout \in CpLayouts}

InitCapacidadValidate ==
    /\ cp_df \in CpTables
    /\ cp_call = None
    /\ cp_result = None
    /\ CoreIdle /\ PrimitiveIdle /\ GrrIdle /\ ChartIdle /\ EngineIdle /\ HandlerIdle /\ PpmIdle

DetectNumericColumn ==
    /\ cp_call = None
    /\ cp_call' = [fn |-> "detect_numeric_column"]
    /\ cp_result' = [column |-> detect_numeric_column(cp_df)]
    /\ UNCHANGED <<cp_df, coreVars, primitiveVars, grrVars, chartVars, engineVars, handlerVars, ppmVars>>

ValidateCapacidadProcesoFile ==
    /\ cp_call = None
    /\ cp_call' = [fn |-> "validate_capacidad_proceso_file"]
    /\ cp_result' = validate_capacidad_proceso_file(cp_df)
    /\ UNCHANGED <<cp_df, coreVars, primitiveVars, grrVars, chartVars, engineVars, handlerVars, ppmVars>>

NextCapacidadValidate == DetectNumericColumn \/ ValidateCapacidadProcesoFile

SpecCapacidadValidate == InitCapacidadValidate /\ [][NextCapacidadValidate]_vars

CapacidadValidated ==
    /\ cp_call # None /\ cp_call # Idle
    /\ cp_call.fn = "validate_capacidad_proceso_file"

ColumnDetected ==
    /\ cp_call # None /\ cp_call # Idle
    /\ cp_call.fn = "detect_numeric_column"

\* C16: when validate_capacidad_proceso_file succeeds, every returned value is
\* a finite float: no NaN and no infinity.
C16_ValuesAreFinite ==
    (CapacidadValidated /\ cp_result.error = None) =>
        \A i \in 1..Len(cp_result.validated_data.values) :
            cp_result.validated_data.values[i].d # 0

\* Validation has succeeded and the returned values hold an infinity or a NaN.
C16_NonFiniteValueReturned ==
    /\ CapacidadValidated
    /\ cp_result.error = None
    /\ \E i \in 1..Len(cp_result.validated_data.values) :
           cp_result.validated_data.values[i].d = 0

\* Whether every value of a column is a native number or a string that
\* converts after strip() and replacing ',' by '.'.
AllValuesNumeric(table, col) ==
    \A r \in 1..Len(table.rows) :
        \/ Column(table, col)[r].type = "float"
        \/ ParseMeasurement(Column(table, col)[r].s) # ValueError

ValoresColumns(table) ==
    {i \in 1..Len(table.columns) : LowerStrip(table.columns[i]) = "valores"}

AllNumericColumns(table) ==
    {i \in 1..Len(table.columns) : AllValuesNumeric(table, table.columns[i])}

\* C17: detect_numeric_column returns a column named 'Valores' (whatever the
\* case) when there is one; otherwise the first column whose values are all
\* native numbers or convertible strings; None only when there is no such
\* column.
C17_ValoresElseFirstAllNumeric ==
    ColumnDetected =>
        IF ValoresColumns(cp_df) # {}
        THEN \E i \in ValoresColumns(cp_df) : cp_result.column = cp_df.columns[i]
        ELSE IF AllNumericColumns(cp_df) # {}
        THEN \E i \in AllNumericColumns(cp_df) :
                 /\ \A j \in AllNumericColumns(cp_df) : i <= j
                 /\ cp_result.column = cp_df.columns[i]
        ELSE cp_result.column = NoColumn

\* A column whose first value converts and whose second does not is returned,
\* ahead of a later column whose values all convert.
C17_PartlyNumericColumnReturned ==
    /\ ColumnDetected
    /\ ValoresColumns(cp_df) = {}
    /\ cp_result.column # NoColumn
    /\ ~AllValuesNumeric(cp_df, cp_result.column)
    /\ AllNumericColumns(cp_df) # {}

\* The 'Valores' part of the claim does hold.
C17_ValoresPreferred ==
    (ColumnDetected /\ ValoresColumns(cp_df) # {}) =>
        LowerStrip(cp_result.column) = "valores"

-----------------------------------------------------------------------------
(***************************************************************************)
(* The locations listed by a validation error.  Tables long enough to hold *)
(* more than MAX_ERRORS offending cells are drawn for both validators: the *)
(* cells of the scanned columns offend at every step-th scan position from *)
(* position first on, all in the same way (text or empty).                 *)
(***************************************************************************)
\* Bound of the specification: the most rows of a drawn MSA table (two
\* measurement columns); a drawn capability table has up to twice as many.
MaxLongRows == 11

OffendingCell(kind) == IF kind = "text" THEN StrCell(<<"a", "b">>) ELSE NaNCell

Offends(position, first, step) == position >= first /\ (position - first) % step = 0

LongMsaTable(n, first, step, kind) ==
    [columns |-> <<"Part", "Operator", "M1", "M2">>,
     rows |-> [r \in 1..n |->
                 <<FloatCell(Int2Q(1 + (r % 2))),
                   StrCell(IF r % 2 = 0 THEN <<"a">> ELSE <<"b">>),
                   IF Offends(r - 1, first, step) THEN OffendingCell(kind)
                   ELSE FloatCell(Int2Q(1)),
                   IF Offends(n + r - 1, first, step) THEN OffendingCell(kind)
                   ELSE FloatCell(Int2Q(2))>>]]

LongCpTable(n, first, step, kind) ==
    [columns |-> <<"Valores">>,
     rows |-> [r \in 1..n |->
                 <<IF Offends(r - 1, first, step) THEN OffendingCell(kind)
                   ELSE FloatCell(Int2Q(1))>>]]

OffenceShapes == [first : 0..2, step : 1..2, kind : {"text", "empty"}]

LongMsaTables ==
    {LongMsaTable(n, o.first, o.step, o.kind) : n \in 1..MaxLongRows, o \in OffenceShapes}

LongCpTables ==
    {LongCpTable(n, o.first, o.step, o.kind) : n \in 1..(2 * MaxLongRows), o \in OffenceShapes}

InitErrorLocations ==
    /\ \/ /\ df \in LongMsaTables
          /\ msa_args = None /\ msa_call = None /\ msa_result = None
          /\ CapacidadIdle
       \/ /\ cp_df \in LongCpTables
          /\ cp_call = None /\ cp_result = None
          /\ MsaIdle
    /\ StabilityIdle /\ DominantIdle /\ CapabilityIdle /\ NormalityIdle /\ PrimitiveIdle /\ GrrIdle /\ ChartIdle /\ EngineIdle /\ HandlerIdle /\ PpmIdle

NextErrorLocations == ValidateMsaFile \/ ValidateCapacidadProcesoFile

SpecErrorLocations == InitErrorLocations /\ [][NextErrorLocations]_vars

\* The first limit elements of a sequence.
FirstOf(s, limit) == SubSeq(s, 1, IF Len(s) < limit THEN Len(s) ELSE limit)

\* The offending cells of an MSA table in scan order, as the error lists them.
NonNumericOffenders(table) ==
    LET hits == SelectSeq(ScanOrder(table, find_required_columns(table).mapping.measurements),
                          LAMBDA place : IsNonNumeric(CellAt(table, place)))
    IN  [k \in 1..Len(hits) |-> [column |-> hits[k].col, row |-> hits[k].idx + 2,
                                 value |-> CellAt(table, hits[k]).s]]

EmptyOffenders(table) ==
    LET m == find_required_columns(table).mapping
        hits == SelectSeq(ScanOrder(table, m.measurements \o <<m.part, m.operator>>),
                          LAMBDA place : IsEmptyCell(CellAt(table, place)))
    IN  [k \in 1..Len(hits) |->
            [letters |-> _column_index_to_letter(ColumnIndex(table, hits[k].col) - 1),
             row |-> hits[k].idx + 2]]

\* The spreadsheet rows of the cells of a column that satisfy Test, top down.
RECURSIVE OffendingRows(_, _, _)
OffendingRows(cells, Test(_), r) ==
    IF r > Len(cells) THEN <<>>
    ELSE (IF Test(cells[r]) THEN <<r + 1>> ELSE <<>>) \o OffendingRows(cells, Test, r + 1)

CpEmptyOffenders(table) ==
    OffendingRows(Column(table, detect_numeric_column(table)), IsEmptyCell, 1)

CpNonNumericOffenders(table) ==
    OffendingRows(Column(table, detect_numeric_column(table)), IsNonNumericValue, 1)

\* C15: the details of NON_NUMERIC_DATA and EMPTY_CELLS (MSA validator) and of
\* EMPTY_CELLS and NON_NUMERIC_VALUES (capability validator) are the first
\* min(20, number of offending cells) offenders in scan order.
C15_AtMostTwentyLocations ==
    /\ (Validated /\ msa_result.error # None) =>
          /\ msa_result.error.code = "NON_NUMERIC_DATA" =>
                 msa_result.error.details = FirstOf(NonNumericOffenders(df), 20)
          /\ msa_result.error.code = "EMPTY_CELLS" =>
                 msa_result.error.details = FirstOf(EmptyOffenders(df), 20)
    /\ (CapacidadValidated /\ cp_result.error # None) =>
          /\ cp_result.error.code = "EMPTY_CELLS" =>
                 cp_result.error.details = FirstOf(CpEmptyOffenders(cp_df), 20)
          /\ cp_result.error.code = "NON_NUMERIC_VALUES" =>
                 cp_result.error.details = FirstOf(CpNonNumericOffenders(cp_df), 20)

\* An MSA table with more than 20 non-numeric cells: 20 of them are listed.
C15_Witness ==
    /\ Validated
    /\ msa_result.error # None
    /\ msa_result.error.code = "NON_NUMERIC_DATA"
    /\ Len(NonNumericOffenders(df)) > 20
    /\ Len(msa_result.error.details) = 20

\* A capability table with more than 20 empty cells: 20 rows are listed.
C15_WitnessCapacidad ==
    /\ CapacidadValidated
    /\ cp_result.error # None
    /\ cp_result.error.code = "EMPTY_CELLS"
    /\ Len(CpEmptyOffenders(cp_df)) > 20
    /\ Len(cp_result.error.details) = 20

C15_WitnessEmptyMsa ==
    /\ Validated
    /\ msa_result.error # None
    /\ msa_result.error.code = "EMPTY_CELLS"
    /\ Len(EmptyOffenders(df)) > 20

C15_WitnessNonNumericCapacidad ==
    /\ CapacidadValidated
    /\ cp_result.error # None
    /\ cp_result.error.code = "NON_NUMERIC_VALUES"
    /\ Len(CpNonNumericOffenders(cp_df)) > 20

-----------------------------------------------------------------------------
(***************************************************************************)
(* Chart data of the capability document, _build_chart_data in             *)
(* src/api/utils/capacidad_proceso_calculator.py; the document carries the *)
(* returned list unchanged under 'chartData'.  A chart is [type, data];    *)
(* the derived numbers of a chart (mean, std, rule violations, expected    *)
(* quantiles, fit line, confidence bands) are left out of data.            *)
(***************************************************************************)
_build_fitted_distribution_curve(normality) ==
    IF normality = None THEN None
    ELSE IF normality.fitted_distribution = None THEN None
    ELSE [name |-> normality.fitted_distribution.name]

HistogramChart(vs, spec_limits, stability, normality) ==
    [type |-> "histogram",
     data |-> [values |-> vs, lei |-> spec_limits.lei, les |-> spec_limits.les,
               lcl |-> IF stability # None THEN stability.i_chart.lcl ELSE None,
               ucl |-> IF stability # None THEN stability.i_chart.ucl ELSE None,
               fitted_distribution |-> _build_fitted_distribution_curve(normality)]]

IChart(vs, stability) ==
    [type |-> "i_chart",
     data |-> [values |-> vs, center |-> stability.i_chart.center,
               ucl |-> stability.i_chart.ucl, lcl |-> stability.i_chart.lcl,
               ooc_points |-> stability.i_chart.ooc_points]]

_build_mr_chart_data(stability) ==
    [type |-> "mr_chart",
     data |-> [values |-> stability.mr_chart.values, center |-> stability.mr_chart.center,
               ucl |-> stability.mr_chart.ucl, lcl |-> 0,
               ooc_points |-> stability.mr_chart.ooc_points]]

_build_normality_plot_data(vs, normality) ==
    [type |-> "normality_plot",
     data |-> [points |-> [i \in 1..Len(vs) |-> [actual |-> NpSort(vs)[i], index |-> i - 1]],
               anderson_darling |-> [statistic |-> normality.ad_statistic,
                                     p_value |-> normality.p_value,
                                     is_normal |-> normality.is_normal]]]

\* _build_chart_data with the MR chart placed before the I chart.
_build_chart_data_mr_first(vs, spec_limits, stability, normality) ==
    IF Len(vs) = 0 THEN <<>>
    ELSE (IF spec_limits # None /\ spec_limits.lei # None /\ spec_limits.les # None
          THEN <<HistogramChart(vs, spec_limits, stability, normality)>> ELSE <<>>)
         \o (IF stability # None
             THEN <<_build_mr_chart_data(stability), IChart(vs, stability)>> ELSE <<>>)
         \o (IF normality # None /\ Len(vs) >= 2
             THEN <<_build_normality_plot_data(vs, normality)>> ELSE <<>>)

\* values is always an array here (the document builder passes the validated
\* series), never None.
_build_chart_data(vs, spec_limits, stability, normality) ==
    IF Len(vs) = 0 THEN <<>>
    ELSE (IF spec_limits # None /\ spec_limits.lei # None /\ spec_limits.les # None
          THEN <<HistogramChart(vs, spec_limits, stability, normality)>> ELSE <<>>)
         \o (IF stability # None
             THEN <<IChart(vs, stability), _build_mr_chart_data(stability)>> ELSE <<>>)
         \o (IF normality # None /\ Len(vs) >= 2
             THEN <<_build_normality_plot_data(vs, normality)>> ELSE <<>>)

\* Bound of the chart specification: the longest series drawn.
MaxChartLen == 3

ChartSeries == SeqsUpTo({Int2Q(0), Int2Q(1), Int2Q(5)}, MaxChartLen)

ChartLimitChoices ==
    {None} \cup [lei : {None, Int2Q(0), Int2Q(1)}, les : {None, Int2Q(3)}]

ChartNormalityChoices ==
    {None,
     [is_normal |-> TRUE, ad_statistic |-> Q(1, 4), p_value |-> Q(1, 2),
      fitted_distribution |-> None],
     [is_normal |-> FALSE, ad_statistic |-> Int2Q(2), p_value |-> Q(1, 1000),
      fitted_distribution |-> [name |-> "weibull"]]}

InitChartData ==
    /\ \E vs \in ChartSeries, stability_ran \in BOOLEAN :
          chart_args \in [values : {vs}, spec_limits : ChartLimitChoices,
                          stability_result :
                              IF stability_ran THEN {perform_stability_analysis(vs)}
                              ELSE {None},
                          normality_result : ChartNormalityChoices]
    /\ chart_data = None
    /\ CoreIdle /\ PrimitiveIdle /\ GrrIdle /\ CapacidadIdle /\ EngineIdle /\ HandlerIdle /\ PpmIdle

BuildChartData ==
    /\ chart_data = None
    /\ chart_data' = [chartData |-> _build_chart_data(
                                        chart_args.values, chart_args.spec_limits,
                                        chart_args.stability_result,
                                        chart_args.normality_result)]
    /\ UNCHANGED <<chart_args, coreVars, primitiveVars, grrVars, capacidadVars, engineVars, handlerVars, ppmVars>>

NextChartData == BuildChartData

SpecChartData == InitChartData /\ [][NextChartData]_vars

ChartsBuilt == chart_data # None /\ chart_data # Idle

ChartTypes == [i \in 1..Len(chart_data.chartData) |-> chart_data.chartData[i].type]

ChartRank(type) ==
    CASE type = "histogram" -> 1 [] type = "i_chart" -> 2
      [] type = "mr_chart" -> 3 [] type = "normality_plot" -> 4

HasChart(type) == \E i \in 1..Len(ChartTypes) : ChartTypes[i] = type

BothLimitsProvided ==
    /\ chart_args.spec_limits # None
    /\ chart_args.spec_limits.lei # None
    /\ chart_args.spec_limits.les # None

\* C18: for a non-empty series the chart types are a subsequence of
\* histogram, i_chart, mr_chart, normality_plot with no type repeated;
\* histogram iff both limits are given, i_chart immediately followed by
\* mr_chart iff stability ran, normality_plot iff normality ran and n >= 2.
C18_ChartOrder ==
    (ChartsBuilt /\ Len(chart_args.values) > 0) =>
        /\ \A i \in 1..Len(ChartTypes) :
               ChartTypes[i] \in {"histogram", "i_chart", "mr_chart", "normality_plot"}
        /\ \A i, j \in 1..Len(ChartTypes) :
               i < j => ChartRank(ChartTypes[i]) < ChartRank(ChartTypes[j])
        /\ HasChart("histogram") <=> BothLimitsProvided
        /\ (chart_args.stability_result # None) <=>
               \E i \in 1..(Len(ChartTypes) - 1) :
                   ChartTypes[i] = "i_chart" /\ ChartTypes[i + 1] = "mr_chart"
        /\ chart_args.stability_result = None =>
               ~HasChart("i_chart") /\ ~HasChart("mr_chart")
        /\ HasChart("normality_plot") <=>
               (chart_args.normality_result # None /\ Len(chart_args.values) >= 2)

\* Every subsystem ran on a series of two values or more: all four charts.
C18_Witness ==
    /\ ChartsBuilt
    /\ ChartTypes = <<"histogram", "i_chart", "mr_chart", "normality_plot">>

\* Normality ran on a single value: no normality plot.
C18_WitnessSingleValue ==
    /\ ChartsBuilt
    /\ Len(chart_args.values) = 1
    /\ chart_args.normality_result # None
    /\ ~HasChart("normality_plot")

-----------------------------------------------------------------------------
(***************************************************************************)
(* Calls of the engine running side by side.  Each call has a frame of its *)
(* own (its table and its local variables); the only objects shared by the *)
(* calls are the module-level ones, of which analyze_msa reads the pattern *)
(* lists of msa_calculator.py.  A call of analyze_msa takes two steps      *)
(* (column detection, then the computation), a call of                     *)
(* build_capacidad_proceso_output one; the steps of different calls        *)
(* interleave freely.                                                      *)
(***************************************************************************)
\* The module-level objects as the import leaves them.
ModuleGlobals == [PART_PATTERNS |-> PART_PATTERNS, OPERATOR_PATTERNS |-> OPERATOR_PATTERNS]

\* detect_columns, reading the pattern lists from the module.
detect_columns_reading(globals, table) ==
    IF \/ _find_column_by_patterns(table, globals.PART_PATTERNS) = NoColumn
       \/ _find_column_by_patterns(table, globals.OPERATOR_PATTERNS) = NoColumn
       \/ Len(detect_measurement_columns(table)) < 2
    THEN None
    ELSE [part |-> _find_column_by_patterns(table, globals.PART_PATTERNS),
          operator |-> _find_column_by_patterns(table, globals.OPERATOR_PATTERNS),
          measurements |-> detect_measurement_columns(table)]

\* An engine whose column detection uses up the part patterns it matched
\* against.
globals_after_detection_consumed(globals) == [globals EXCEPT !.PART_PATTERNS = {}]

\* The module-level objects after a call detected its columns: the code
\* assigns to none of them.
globals_after_detection(globals) == globals

\* The rest of analyze_msa once the columns are detected.
analyze_msa_from_columns(table, columns) ==
    IF IsEmptyTable(table) THEN [output |-> None, error |-> ErrorCode("CALCULATION_ERROR")]
    ELSE IF columns = None THEN [output |-> None, error |-> ErrorCode("MISSING_COLUMNS")]
    ELSE analyze_msa(table, columns, FALSE)

\* Bound of the specification: the number of calls in progress.
MaxCalls == 2

CallIds == 1..MaxCalls

\* The inputs a call may receive: MSA tables (a sound one, one whose
\* measurements are text, one without a part column, one without rows) and
\* capability series.
CallInputs ==
    {[fn |-> "analyze_msa", table |-> t] :
        t \in {LongMsaTable(2, 9, 1, "text"), LongMsaTable(2, 0, 1, "text"),
               [columns |-> <<"Operator", "M1", "M2">>,
                rows |-> <<<<StrCell(<<"a">>), FloatCell(Int2Q(1)), FloatCell(Int2Q(2))>>>>],
               [columns |-> <<"Part", "Operator", "M1", "M2">>, rows |-> <<>>]}}
    \cup {[fn |-> "build_capacidad_proceso_output", values |-> SeriesOf(shape, 3),
           lei |-> Int2Q(0), les |-> Int2Q(3)] : shape \in {"constant", "cycling"}}

InitConcurrentCalls ==
    /\ calls \in [CallIds -> {[input |-> i, pc |-> "called", columns |-> None,
                               document |-> None] : i \in CallInputs}]
    /\ process_state = ModuleGlobals
    /\ CoreIdle /\ PrimitiveIdle /\ GrrIdle /\ CapacidadIdle /\ ChartIdle /\ HandlerIdle /\ PpmIdle

\* analyze_msa up to the detection of the columns, which an empty table
\* does not reach.
DetectColumnsStep(c) ==
    /\ calls[c].pc = "called"
    /\ calls[c].input.fn = "analyze_msa"
    /\ calls' = [calls EXCEPT ![c].pc = "columns_detected",
                              ![c].columns = IF IsEmptyTable(calls[c].input.table) THEN None
                                             ELSE detect_columns_reading(
                                                      process_state, calls[c].input.table)]
    /\ process_state' = IF IsEmptyTable(calls[c].input.table) THEN process_state
                        ELSE globals_after_detection(process_state)
    /\ UNCHANGED <<coreVars, primitiveVars, grrVars, capacidadVars, chartVars, handlerVars, ppmVars>>

\* analyze_msa from the detected columns to its return.
AnalyzeMsaReturn(c) ==
    /\ calls[c].pc = "columns_detected"
    /\ calls' = [calls EXCEPT ![c].pc = "returned",
                              ![c].document = analyze_msa_from_columns(
                                                  calls[c].input.table, calls[c].columns)]
    /\ UNCHANGED <<process_state, coreVars, primitiveVars, grrVars, capacidadVars, chartVars, handlerVars, ppmVars>>

BuildOutputReturn(c) ==
    /\ calls[c].pc = "called"
    /\ calls[c].input.fn = "build_capacidad_proceso_output"
    /\ calls' = [calls EXCEPT ![c].pc = "returned",
                              ![c].document = build_capacidad_proceso_output(
                                                  calls[c].input.values,
                                                  [lei |-> calls[c].input.lei,
                                                   les |-> calls[c].input.les],
                                                  StabilityFor(calls[c].input.values),
                                                  None)]
    /\ UNCHANGED <<process_state, coreVars, primitiveVars, grrVars, capacidadVars, chartVars, handlerVars, ppmVars>>

NextConcurrentCalls ==
    \E c \in CallIds : DetectColumnsStep(c) \/ AnalyzeMsaReturn(c) \/ BuildOutputReturn(c)

SpecConcurrentCalls == InitConcurrentCalls /\ [][NextConcurrentCalls]_vars

\* What a call yields when it runs alone in a fresh process.
LoneCall(input) ==
    IF input.fn = "analyze_msa" THEN analyze_msa(input.table, None, FALSE)
    ELSE build_capacidad_proceso_output(input.values, [lei |-> input.lei, les |-> input.les],
                                        StabilityFor(input.values), None)

CallsRunning == calls # Idle

C19_WitnessInterleaved ==
    /\ CallsRunning
    /\ \E c, e \in CallIds :
          /\ calls[c].pc = "columns_detected"
          /\ calls[e].pc = "returned"
          /\ calls[e].input.fn = "analyze_msa"

-----------------------------------------------------------------------------
(***************************************************************************)
(* api/analyze.py: the POST handler.  A request is its JSON body together  *)
(* with what the collaborators will answer: the storage, the Excel loader  *)
(* (whose table is validated and analysed by the engine above) and the     *)
(* database, whose updates of the files table and whose insert of the      *)
(* results either succeed or fail.                                         *)
(***************************************************************************)
SUPPORTED_ANALYSIS_TYPES == {"msa"}

\* response.py: error_response, with the status code it is sent with.
error_response(status_code, code, details) ==
    [status |-> status_code, data |-> None, error |-> [code |-> code, details |-> details]]

success_response(results) ==
    [status |-> 200, data |-> [results |-> results], error |-> None]

validation_error_response(error_dict) ==
    error_response(400, "FILE_VALIDATION_ERROR",
                   [type |-> error_dict.code,
                    items |-> IF "details" \in DOMAIN error_dict THEN error_dict.details
                              ELSE <<>>])

\* supabase_client.py: update_file_validation, as the row it leaves.  An
\* unreachable database leaves the row as it was (the function returns False).
update_file_validation(row, is_valid, errors, db_up) ==
    IF ~db_up THEN row
    ELSE IF is_valid
    THEN [status |-> "valid", validation_errors |-> None, validated_at |-> "now"]
    ELSE [row EXCEPT !.status = "invalid", !.validation_errors = errors]

update_file_status(row, status, db_up) ==
    IF ~db_up THEN row ELSE [row EXCEPT !.status = status]

\* The calls the handler makes to the database and to the engine.
UpdateFileValidationCall(is_valid, errors) ==
    [fn |-> "update_file_validation", is_valid |-> is_valid, errors |-> errors]

UpdateFileStatusCall(status) == [fn |-> "update_file_status", status |-> status]

AnalyzeMsaCall == [fn |-> "analyze_msa"]

FetchFileCall == [fn |-> "fetch_file_from_storage"]

SaveAnalysisResultsCall(results) == [fn |-> "save_analysis_results", results |-> results]

\* A handler that answers a rejected file without recording the rejection.
rejected_file_unrecorded(validation_error) ==
    [trace |-> <<>>, response |-> validation_error_response(validation_error)]

\* do_POST, the branch of a file the validator rejects: one call of
\* update_file_validation, the 400 response, return.
rejected_file(validation_error) ==
    [trace |-> <<UpdateFileValidationCall(FALSE, validation_error)>>,
     response |-> validation_error_response(validation_error)]

\* A handler that marks the file 'valid' only after the analysis.
accepted_file_marked_late(req, validated_columns) ==
    IF analyze_msa(req.table, validated_columns, req.later_failure).error # None
    THEN [trace |-> <<AnalyzeMsaCall, UpdateFileValidationCall(TRUE, None)>>,
          response |-> error_response(500, "ANALYSIS_ERROR", None)]
    ELSE [trace |-> <<AnalyzeMsaCall, UpdateFileValidationCall(TRUE, None),
                      UpdateFileStatusCall("processed")>>,
          response |-> success_response(
                           analyze_msa(req.table, validated_columns,
                                       req.later_failure).output.results)]

\* A handler that marks the file 'processed' whether or not the analysis
\* failed.
accepted_file_processed_anyway(req, validated_columns) ==
    IF analyze_msa(req.table, validated_columns, req.later_failure).error # None
    THEN [trace |-> <<UpdateFileValidationCall(TRUE, None), AnalyzeMsaCall,
                      UpdateFileStatusCall("processed")>>,
          response |-> error_response(500, "ANALYSIS_ERROR", None)]
    ELSE [trace |-> <<UpdateFileValidationCall(TRUE, None), AnalyzeMsaCall,
                      UpdateFileStatusCall("processed")>>,
          response |-> success_response(
                           analyze_msa(req.table, validated_columns,
                                       req.later_failure).output.results)]

\* A handler for which a failed insert of the results fails the request.
accepted_file_blocking(req, validated_columns) ==
    IF analyze_msa(req.table, validated_columns, req.later_failure).error # None
    THEN [trace |-> <<UpdateFileValidationCall(TRUE, None), AnalyzeMsaCall>>,
          response |-> error_response(500, "ANALYSIS_ERROR", None)]
    ELSE [trace |-> <<UpdateFileValidationCall(TRUE, None), AnalyzeMsaCall,
                      UpdateFileStatusCall("processed"),
                      SaveAnalysisResultsCall(
                          analyze_msa(req.table, validated_columns,
                                      req.later_failure).output.results)>>,
          response |-> IF req.save_ok
                       THEN success_response(
                                analyze_msa(req.table, validated_columns,
                                            req.later_failure).output.results)
                       ELSE error_response(500, "DATABASE_ERROR", None)]

\* do_POST from the analysis on, for a file the validator accepted.
accepted_file(req, validated_columns) ==
    IF analyze_msa(req.table, validated_columns, req.later_failure).error # None
    THEN [trace |-> <<UpdateFileValidationCall(TRUE, None), AnalyzeMsaCall>>,
          response |-> error_response(500, "ANALYSIS_ERROR", None)]
    ELSE [trace |-> <<UpdateFileValidationCall(TRUE, None), AnalyzeMsaCall,
                      UpdateFileStatusCall("processed")>>
                    \o (IF req.message_id = "uuid"
                        THEN <<SaveAnalysisResultsCall(
                                   analyze_msa(req.table, validated_columns,
                                               req.later_failure).output.results)>>
                        ELSE <<>>),
          response |-> success_response(
                           analyze_msa(req.table, validated_columns,
                                       req.later_failure).output.results)]

\* Whether the request passes every check made before the file is validated.
ReachesValidation(req) ==
    /\ req.json_ok
    /\ req.analysis_type # "absent" /\ req.file_id # "absent"
    /\ req.file_id = "uuid"
    /\ req.message_id # "not_uuid"
    /\ req.analysis_type \in SUPPORTED_ANALYSIS_TYPES
    /\ req.fetch_error = "none"
    /\ req.load_error = "none"

\* The file was fetched from the storage before the rest of the handler ran.
after_fetch(rest) ==
    [trace |-> <<FetchFileCall>> \o rest.trace, response |-> rest.response]

\* do_POST: the calls it makes and the response it sends.  An analysis_type
\* that is a JSON array (or object) cannot be looked up in the set of the
\* supported types: the membership test raises TypeError (unhashable type),
\* which the handler's last except clause answers; so does it the TypeError
\* uuid.UUID raises for a file_id that is JSON null, which is_valid_uuid does
\* not catch.
do_POST(req) ==
    IF ~req.json_ok
    THEN [trace |-> <<>>, response |-> error_response(400, "VALIDATION_ERROR", None)]
    ELSE IF req.analysis_type = "absent" \/ req.file_id = "absent"
    THEN [trace |-> <<>>, response |-> error_response(400, "MISSING_FIELD", None)]
    ELSE IF req.file_id = "json_null"
    THEN [trace |-> <<>>,
          response |-> error_response(500, "ANALYSIS_ERROR", [error_type |-> "TypeError"])]
    ELSE IF req.file_id # "uuid"
    THEN [trace |-> <<>>, response |-> error_response(400, "VALIDATION_ERROR", None)]
    ELSE IF req.message_id = "not_uuid"
    THEN [trace |-> <<>>, response |-> error_response(400, "VALIDATION_ERROR", None)]
    ELSE IF req.analysis_type = "json_array"
    THEN [trace |-> <<>>,
          response |-> error_response(500, "ANALYSIS_ERROR", [error_type |-> "TypeError"])]
    ELSE IF req.analysis_type \notin SUPPORTED_ANALYSIS_TYPES
    THEN [trace |-> <<>>, response |-> error_response(400, "UNKNOWN_ANALYSIS_TYPE", None)]
    ELSE IF req.fetch_error # "none"
    THEN [trace |-> <<FetchFileCall>>,
          response |-> error_response(IF req.fetch_error = "FILE_NOT_FOUND" THEN 404 ELSE 500,
                                      req.fetch_error, None)]
    ELSE IF req.load_error # "none"
    THEN [trace |-> <<FetchFileCall>>, response |-> error_response(400, req.load_error, None)]
    ELSE IF validate_msa_file(req.table).error # None
    THEN after_fetch(rejected_file(validate_msa_file(req.table).error))
    ELSE after_fetch(accepted_file(req, validate_msa_file(req.table).columns))

\* The row of the file after the database calls of a trace.
RECURSIVE RowAfter(_, _, _)
RowAfter(row, trace, db_up) ==
    IF trace = <<>> THEN row
    ELSE RowAfter(IF Head(trace).fn = "update_file_validation"
                  THEN update_file_validation(row, Head(trace).is_valid,
                                              Head(trace).errors, db_up)
                  ELSE IF Head(trace).fn = "update_file_status"
                  THEN update_file_status(row, Head(trace).status, db_up)
                  ELSE row,
                  Tail(trace), db_up)

\* The rows save_analysis_results inserted (none when the insert fails).
SavedRows(trace, save_ok) ==
    IF save_ok THEN SelectSeq(trace, LAMBDA call : call.fn = "save_analysis_results") ELSE <<>>

\* Bound of the specification: the number of rows of the uploaded table.
MaxPostRows == 2

\* The uploaded tables: sound ones, ones with text or empty measurements, ones
\* with too few parts, one without a part column, and a capability table (a
\* numeric 'Valores' column).
PostTables ==
    {LongMsaTable(n, first, 1, kind) :
        n \in 1..MaxPostRows, first \in {0, 1, 2 * MaxPostRows}, kind \in {"text", "empty"}}
    \cup {[columns |-> <<"Operator", "M1", "M2">>,
           rows |-> <<<<StrCell(<<"a">>), FloatCell(Int2Q(1)), FloatCell(Int2Q(2))>>>>],
          LongCpTable(MaxPostRows, 2 * MaxPostRows, 1, "text")}

PostRequests ==
    [json_ok : BOOLEAN,
     analysis_type : {"absent", "msa", "capacidad_proceso", "json_array"},
     file_id : {"absent", "uuid", "not_uuid", "json_null"},
     message_id : {"absent", "uuid", "not_uuid"},
     fetch_error : {"none", "FILE_NOT_FOUND", "FILE_FETCH_ERROR"},
     load_error : {"none", "INVALID_FILE"},
     table : PostTables,
     later_failure : BOOLEAN,
     db_up : BOOLEAN,
     save_ok : BOOLEAN,
     status_before : {"pending", "processed"}]

InitPost ==
    /\ post_request \in PostRequests
    /\ post_trace = <<>>
    /\ files_row = [status |-> post_request.status_before, validation_errors |-> None]
    /\ analysis_results = <<>>
    /\ post_response = None
    /\ CoreIdle /\ PrimitiveIdle /\ GrrIdle /\ CapacidadIdle /\ ChartIdle /\ EngineIdle /\ PpmIdle

DoPost ==
    /\ post_response = None
    /\ post_trace' = do_POST(post_request).trace
    /\ post_response' = do_POST(post_request).response
    /\ files_row' = RowAfter(files_row, do_POST(post_request).trace, post_request.db_up)
    /\ analysis_results' = SavedRows(do_POST(post_request).trace, post_request.save_ok)
    /\ UNCHANGED <<post_request, coreVars, primitiveVars, grrVars, capacidadVars, chartVars, engineVars, ppmVars>>

NextPost == DoPost

SpecPost == InitPost /\ [][NextPost]_vars

PostHandled == post_request # Idle /\ post_response # None

\* The handler validated the table of the request and the validator rejected it.
FileRejected ==
    /\ PostHandled
    /\ ReachesValidation(post_request)
    /\ validate_msa_file(post_request.table).error # None

CallsOf(fn) == SelectSeq(post_trace, LAMBDA call : call.fn = fn)

\* C20: when the validator rejects the table, the handler calls
\* update_file_validation exactly once, with is_valid False and the validation
\* error, answers 400 with FILE_VALIDATION_ERROR, and makes no other call: it
\* does not run analyze_msa, does not mark the file valid or processed, and
\* saves no results.
C20_RejectedFileHandling ==
    FileRejected =>
        /\ post_trace = <<FetchFileCall,
                          UpdateFileValidationCall(
                              FALSE, validate_msa_file(post_request.table).error)>>
        /\ post_response.status = 400
        /\ post_response.error.code = "FILE_VALIDATION_ERROR"
        /\ CallsOf("analyze_msa") = <<>>
        /\ CallsOf("update_file_status") = <<>>
        /\ CallsOf("save_analysis_results") = <<>>
        /\ \A i \in 1..Len(post_trace) :
               post_trace[i].fn = "update_file_validation" => ~post_trace[i].is_valid
        /\ files_row.status \in {"invalid", post_request.status_before}
        /\ post_request.db_up => files_row.status = "invalid"
        /\ analysis_results = <<>>

\* A file with text in its measurement columns was rejected while the database
\* was reachable: the row of the file is now 'invalid' and holds the error.
C20_Witness ==
    /\ FileRejected
    /\ validate_msa_file(post_request.table).error.code = "NON_NUMERIC_DATA"
    /\ post_request.db_up
    /\ post_request.message_id = "uuid"
    /\ files_row.status = "invalid"
    /\ files_row.validation_errors = validate_msa_file(post_request.table).error

\* An accepted file was analysed, marked 'processed' and its results saved.
C20_WitnessAccepted ==
    /\ PostHandled
    /\ post_response.status = 200
    /\ files_row.status = "processed"
    /\ Len(analysis_results) = 1

\* The file of the request passed the validation, and the analysis of it
\* succeeded or failed.
FileAccepted ==
    /\ PostHandled
    /\ ReachesValidation(post_request)
    /\ validate_msa_file(post_request.table).error = None

AnalysisOutcome ==
    analyze_msa(post_request.table, validate_msa_file(post_request.table).columns,
                post_request.later_failure)

AnalysisSucceeded == FileAccepted /\ AnalysisOutcome.error = None

AnalysisFailed == FileAccepted /\ AnalysisOutcome.error # None

\* The places of the trace where the handler called fn.
Positions(fn) == {i \in 1..Len(post_trace) : post_trace[i].fn = fn}

\* C21: when the table passes the validation and the analysis succeeds, the
\* file is marked 'valid' exactly once, before analyze_msa runs, and marked
\* 'processed' exactly once, after analyze_msa returned; in every request a
\* 'processed' update is preceded by a 'valid' update.
C21_ValidBeforeProcessed ==
    /\ AnalysisSucceeded =>
          /\ Cardinality(Positions("update_file_validation")) = 1
          /\ Cardinality(Positions("analyze_msa")) = 1
          /\ Cardinality(Positions("update_file_status")) = 1
          /\ \A v \in Positions("update_file_validation"), a \in Positions("analyze_msa"),
                p \in Positions("update_file_status") :
                 /\ post_trace[v].is_valid
                 /\ post_trace[p].status = "processed"
                 /\ v < a /\ a < p
    /\ PostHandled =>
          \A p \in Positions("update_file_status") :
              \E v \in Positions("update_file_validation") : post_trace[v].is_valid /\ v < p

\* A request was analysed with success while the database was reachable: the
\* row of the file went through 'valid' and is now 'processed'.
C21_Witness ==
    /\ AnalysisSucceeded
    /\ post_request.db_up
    /\ post_request.status_before = "pending"
    /\ files_row.status = "processed"
    /\ "validated_at" \in DOMAIN files_row

\* The rejection the checks made before the storage is touched give a
\* well-formed JSON body, in their order of priority.
ExpectedRejection(req) ==
    IF req.analysis_type = "absent" \/ req.file_id = "absent" THEN "MISSING_FIELD"
    ELSE IF req.file_id # "uuid" THEN "VALIDATION_ERROR"
    ELSE IF req.message_id = "not_uuid" THEN "VALIDATION_ERROR"
    ELSE IF req.analysis_type \notin SUPPORTED_ANALYSIS_TYPES THEN "UNKNOWN_ANALYSIS_TYPE"
    ELSE "none"

Malformed == PostHandled /\ post_request.json_ok /\ ExpectedRejection(post_request) # "none"

\* C22: a malformed request is answered 400 with the code of the first check
\* it fails (missing field, file_id, message_id, analysis type, in this
\* order), and nothing was fetched or written.
C22_MalformedRequestRejected ==
    Malformed =>
        /\ post_response.status = 400
        /\ post_response.error.code = ExpectedRejection(post_request)
        /\ post_trace = <<>>
        /\ files_row.status = post_request.status_before
        /\ analysis_results = <<>>

\* A request whose analysis_type is a JSON array, otherwise well formed, was
\* answered 500 ANALYSIS_ERROR.
C22_UnhashableTypeAnswered500 ==
    /\ Malformed
    /\ post_request.analysis_type = "json_array"
    /\ post_request.file_id = "uuid"
    /\ post_request.message_id = "absent"
    /\ post_response.status = 500
    /\ post_response.error.code = "ANALYSIS_ERROR"
    /\ post_trace = <<>>

\* A request whose file_id is JSON null was answered 500 ANALYSIS_ERROR.
C22_NullFileIdAnswered500 ==
    /\ Malformed
    /\ post_request.file_id = "json_null"
    /\ post_request.analysis_type = "msa"
    /\ post_response.status = 500
    /\ post_trace = <<>>

\* The priority of the rejections holds for every request whose fields are
\* strings or absent.
C22_StringTypedRequestRejected ==
    (Malformed /\ post_request.analysis_type # "json_array"
               /\ post_request.file_id # "json_null") =>
        /\ post_response.status = 400
        /\ post_response.error.code = ExpectedRejection(post_request)
        /\ post_trace = <<>>

\* A capability request: analysis_type 'capacidad_proceso', a valid file_id,
\* and a file that loads into a table with a numeric 'Valores' column.
CapacidadProcesoRequest ==
    /\ PostHandled
    /\ post_request.json_ok
    /\ post_request.analysis_type = "capacidad_proceso"
    /\ post_request.file_id = "uuid"
    /\ post_request.message_id # "not_uuid"
    /\ post_request.fetch_error = "none"
    /\ post_request.load_error = "none"
    /\ _find_valores_column(post_request.table) # NoColumn
    /\ validate_capacidad_proceso_file(post_request.table).error = None

\* C23: a capability request is answered 200 with error = null and the
\* analysis in data.
C23_CapacidadProcesoAccepted ==
    CapacidadProcesoRequest =>
        /\ post_response.status = 200
        /\ post_response.error = None
        /\ post_response.data # None

\* A capability request was answered 400 UNKNOWN_ANALYSIS_TYPE without the
\* file being fetched.
C23_CapacidadProcesoRejected ==
    /\ CapacidadProcesoRequest
    /\ post_response.status = 400
    /\ post_response.error.code = "UNKNOWN_ANALYSIS_TYPE"
    /\ post_trace = <<>>

\* C28: 'processed' is written only after a passed validation and an analysis
\* without error; when the analysis returns an error the handler answers 500
\* ANALYSIS_ERROR, saves nothing, and the last status it wrote is 'valid'.
C28_ProcessedOnlyAfterSuccess ==
    /\ (PostHandled /\ Positions("update_file_status") # {}) => AnalysisSucceeded
    /\ AnalysisFailed =>
          /\ post_response.status = 500
          /\ post_response.error.code = "ANALYSIS_ERROR"
          /\ Positions("save_analysis_results") = {}
          /\ analysis_results = <<>>
          /\ post_trace = <<FetchFileCall, UpdateFileValidationCall(TRUE, None), AnalyzeMsaCall>>
          /\ post_request.db_up => files_row.status = "valid"

\* The analysis of an accepted file failed while the database was reachable.
C28_Witness ==
    /\ AnalysisFailed
    /\ post_request.db_up
    /\ post_request.message_id = "uuid"
    /\ post_request.save_ok
    /\ files_row.status = "valid"

C29_WitnessSaved ==
    /\ AnalysisSucceeded
    /\ post_request.save_ok
    /\ Len(analysis_results) = 1

-----------------------------------------------------------------------------
(***************************************************************************)
(* The stability engine on trending series and on series of doubles.       *)
(***************************************************************************)
\* Bound of the trend specification: the longest series drawn.
MaxTrendLen == 8

\* The series that start at 0 and move by -1, 0 or +1 from point to point.
RECURSIVE WalksUpTo(_)
WalksUpTo(n) ==
    IF n = 1 THEN {<<0>>}
    ELSE WalksUpTo(n - 1)
         \cup {Append(s, s[Len(s)] + d) :
                  s \in {t \in WalksUpTo(n - 1) : Len(t) = n - 1}, d \in {-1, 0, 1}}

InitTrending ==
    /\ values \in WalksUpTo(MaxTrendLen)
    /\ stability_result = None
    /\ MsaIdle /\ DominantIdle /\ CapabilityIdle /\ NormalityIdle /\ RestIdle

SpecTrending == InitTrending /\ [][NextStability]_vars

StabilityAnalysed == stability_result # None /\ stability_result # Idle

\* The series holds k consecutive successive differences, none zero, all of
\* the same sign (k + 1 strictly monotone consecutive points).
HasMonotoneRun(s, k) ==
    \E first \in 1..(Len(s) - k) :
        \/ \A i \in first..(first + k - 1) : s[i + 1] > s[i]
        \/ \A i \in first..(first + k - 1) : s[i + 1] < s[i]

\* C24: rule 2 is violated exactly when the series holds 7 consecutive
\* non-zero differences of the same sign, and each violation records start,
\* end and a direction, up or down.
C24_Rule2SevenDifferences ==
    StabilityAnalysed =>
        /\ ~stability_result.rules.rule_2.cumple <=> HasMonotoneRun(values, 7)
        /\ \A i \in 1..Len(stability_result.rules.rule_2.violations) :
               /\ DOMAIN stability_result.rules.rule_2.violations[i]
                    = {"start", "end", "direction"}
               /\ stability_result.rules.rule_2.violations[i].direction \in {"up", "down"}

\* Seven rising points (six differences) were reported as a trend.
C24_SevenPointsReported ==
    /\ StabilityAnalysed
    /\ values = <<0, 1, 2, 3, 4, 5, 6>>
    /\ stability_result.rules.rule_2
         = [cumple |-> FALSE, violations |-> <<[start |-> 0, end |-> 6, direction |-> "up"]>>]

\* What the code does: rule 2 is violated exactly when the series holds 6
\* consecutive non-zero differences of the same sign (7 points).
C24_Rule2SixDifferences ==
    StabilityAnalysed =>
        (~stability_result.rules.rule_2.cumple <=> HasMonotoneRun(values, 6))

\* C27: for a series of fewer than 7 points, rules 2 to 7 each return
\* cumple = true with no violations.
C27_ShortSeriesPassRunRules ==
    (StabilityAnalysed /\ Len(values) < 7) =>
        \A r \in RuleNames \ {"rule_1"} : stability_result.rules[r] = RulePass

\* A series of six points, five of them on one side of the center line, was
\* analysed.
C27_Witness ==
    /\ StabilityAnalysed
    /\ values = <<2, 2, 2, 2, 2, 0>>
    /\ stability_result.rules.rule_7.cumple

\* Bound of the specification of series of doubles: the longest series drawn.
MaxFloatLen == 7

\* Series made of the doubles 0.1 and 50.
FloatSeriesInputs == SeqsUpTo({Tenth, Int2Q(50)}, MaxFloatLen) \ {<<>>}

InitFloatSeries ==
    /\ values \in FloatSeriesInputs
    /\ stability_result = None
    /\ MsaIdle /\ DominantIdle /\ CapabilityIdle /\ NormalityIdle /\ RestIdle

PerformStabilityAnalysisOnFloats ==
    /\ stability_result = None
    /\ stability_result' = perform_stability_analysis(values)
    /\ UNCHANGED <<values, msaVars, dominantVars, capabilityVars, normalityVars, restVars>>

NextFloatSeries == PerformStabilityAnalysisOnFloats

SpecFloatSeries == InitFloatSeries /\ [][NextFloatSeries]_vars

IsConstantSeries(s) == \A i \in 1..Len(s) : s[i] = s[1]

\* C26: for a constant series, rules 3, 4 and 5 pass with no violations, rule 1
\* reports no point beyond the limits, and the analysis reports
\* is_stable = true with sigma = 0.
C26_ConstantSeriesStable ==
    (StabilityAnalysed /\ IsConstantSeries(values)) =>
        /\ stability_result.rules.rule_3 = RulePass
        /\ stability_result.rules.rule_4 = RulePass
        /\ stability_result.rules.rule_5 = RulePass
        /\ stability_result.rules.rule_1 = RulePass
        /\ stability_result.is_stable
        /\ stability_result.sigma = Int2Q(0)

\* Three copies of 0.1: the center line is one spacing above the points, the
\* limits coincide with it, and every point is reported below the LCL.
C26_ConstantTenthsUnstable ==
    /\ StabilityAnalysed
    /\ values = <<Tenth, Tenth, Tenth>>
    /\ stability_result.i_chart.ucl = stability_result.i_chart.center
    /\ stability_result.i_chart.lcl = stability_result.i_chart.center
    /\ Len(stability_result.rules.rule_1.violations) = 3
    /\ ~stability_result.is_stable
    /\ stability_result.sigma = Int2Q(0)

\* What holds of every constant series: rules 3, 4 and 5 pass and sigma is 0.
C26_ZoneRulesPassOnConstant ==
    (StabilityAnalysed /\ IsConstantSeries(values)) =>
        /\ stability_result.rules.rule_3 = RulePass
        /\ stability_result.rules.rule_4 = RulePass
        /\ stability_result.rules.rule_5 = RulePass
        /\ stability_result.sigma = Int2Q(0)

-----------------------------------------------------------------------------
(***************************************************************************)
(* The two PPM computations on a fitted distribution: calculate_ppm        *)
(* (distribution_fitting.py), whose record goes into the normality result, *)
(* and _calculate_ppm_from_distribution (capability_indices.py), whose     *)
(* record goes into the capability result.                                 *)
(***************************************************************************)
\* The CDF of a fitted distribution at x: the CDFs of the positive-support
\* families return 0 for x <= 0, otherwise the value of their formula.
CdfAt(fitted_dist, x, formula_value) ==
    IF fitted_dist.name \in PositiveSupport /\ QLe(x, Int2Q(0)) THEN Int2Q(0)
    ELSE formula_value

calculate_ppm(fitted_dist, lei, les) ==
    PpmRecord(PpmOf(CdfAt(fitted_dist, lei, fitted_dist.cdf_lei)),
              PpmOf(QSub(Int2Q(1), CdfAt(fitted_dist, les, fitted_dist.cdf_les))))

\* The values a CDF takes at the two limits, and the limits (lei < les).
CdfLevels == {Int2Q(0), Q(1, 4), Q(3, 4), Int2Q(1)}

PpmLimits == {-2, -1, 0, 1, 2}

PpmInputs ==
    {[name |-> name, cdf_lei |-> below, cdf_les |-> above, lei |-> Int2Q(lei), les |-> Int2Q(les)] :
        name \in PositiveSupport \cup WholeLine,
        below \in CdfLevels, above \in CdfLevels, lei \in PpmLimits, les \in PpmLimits}

InitPpm ==
    /\ ppm_args \in {i \in PpmInputs : QLe(i.cdf_lei, i.cdf_les) /\ QLt(i.lei, i.les)}
    /\ ppm_records = [normality |-> None, capability |-> None]
    /\ CoreIdle /\ PrimitiveIdle /\ GrrIdle /\ CapacidadIdle /\ ChartIdle /\ EngineIdle /\ HandlerIdle

CalculatePpm ==
    /\ ppm_records.normality = None
    /\ ppm_records' = [ppm_records EXCEPT
                          !.normality = calculate_ppm(ppm_args, ppm_args.lei, ppm_args.les)]
    /\ UNCHANGED <<ppm_args, coreVars, primitiveVars, grrVars, capacidadVars, chartVars, engineVars, handlerVars>>

CalculatePpmFromDistribution ==
    /\ ppm_records.capability = None
    /\ ppm_records' = [ppm_records EXCEPT
                          !.capability = _calculate_ppm_from_distribution(
                                             ppm_args, ppm_args.lei, ppm_args.les)]
    /\ UNCHANGED <<ppm_args, coreVars, primitiveVars, grrVars, capacidadVars, chartVars, engineVars, handlerVars>>

NextPpm == CalculatePpm \/ CalculatePpmFromDistribution

SpecPpm == InitPpm /\ [][NextPpm]_vars

\* Both records of a positive-support family are computed.
PositiveSupportPpm ==
    /\ ppm_args # Idle
    /\ ppm_args.name \in PositiveSupport
    /\ ppm_records.normality # None
    /\ ppm_records.capability # None

\* C25: for a positive-support family, lei <= 0 gives ppm_below = 0 and
\* les <= 0 gives ppm_above = 1,000,000 in both computations, and the two
\* records agree.
C25_NonPositiveLimitIsZeroProbability ==
    PositiveSupportPpm =>
        /\ QLe(ppm_args.lei, Int2Q(0)) =>
              /\ ppm_records.normality.ppm_below_lei = 0
              /\ ppm_records.capability.ppm_below_lei = 0
        /\ QLe(ppm_args.les, Int2Q(0)) =>
              /\ ppm_records.normality.ppm_above_les = 1000000
              /\ ppm_records.capability.ppm_above_les = 1000000
        /\ ppm_records.normality = ppm_records.capability

\* A Weibull fit under an upper limit of 0: calculate_ppm gives
\* ppm_above = 1,000,000 and _calculate_ppm_from_distribution gives 0.
C25_RecordsDisagree ==
    /\ PositiveSupportPpm
    /\ ppm_args.name = "weibull"
    /\ ppm_args.les = Int2Q(0)
    /\ ppm_records.normality.ppm_above_les = 1000000
    /\ ppm_records.capability.ppm_above_les = 0

\* What holds: lei <= 0 gives ppm_below = 0 in both computations, and the two
\* records agree whenever les > 0.
C25_LowerLimitIsZeroProbability ==
    PositiveSupportPpm =>
        /\ QLe(ppm_args.lei, Int2Q(0)) =>
              /\ ppm_records.normality.ppm_below_lei = 0
              /\ ppm_records.capability.ppm_below_lei = 0
        /\ QGt(ppm_args.les, Int2Q(0)) => ppm_records.normality = ppm_records.capability

-----------------------------------------------------------------------------
(***************************************************************************)
(* validate_msa_file on empty measurement cells.                           *)
(***************************************************************************)
\* The places of the measurement columns of the validated table that hold an
\* empty cell (NaN/None, or a string of whitespace only).
EmptyMeasurementPlaces ==
    {k \in 1..Len(ScanOrder(df, find_required_columns(df).mapping.measurements)) :
        IsEmptyCell(CellAt(df, ScanOrder(
                               df, find_required_columns(df).mapping.measurements)[k]))}

PlaceOf(k) == ScanOrder(df, find_required_columns(df).mapping.measurements)[k]

\* The table was validated and its column structure is valid.
StructureValidated == Validated /\ ~FailsStructure(df)

\* C30: for a table with a valid column structure, no empty measurement cell
\* is listed under NON_NUMERIC_DATA, and when the table is rejected for its
\* empty cells each empty measurement cell is listed in spreadsheet notation.
C30_EmptyCellsNeverNonNumeric ==
    StructureValidated =>
        /\ (msa_result.error # None /\ msa_result.error.code = "NON_NUMERIC_DATA") =>
              \A k \in EmptyMeasurementPlaces :
                  \A e \in 1..Len(msa_result.error.details) :
                      ~(/\ msa_result.error.details[e].column = PlaceOf(k).col
                        /\ msa_result.error.details[e].row = PlaceOf(k).idx + 2)
        /\ (EmptyMeasurementPlaces # {} /\ ~FailsNumeric(df)) =>
              /\ msa_result.error # None
              /\ msa_result.error.code = "EMPTY_CELLS"
              /\ \A k \in EmptyMeasurementPlaces :
                     \E e \in 1..Len(msa_result.error.details) :
                         msa_result.error.details[e]
                           = [letters |-> _column_index_to_letter(
                                              ColumnIndex(df, PlaceOf(k).col) - 1),
                              row |-> PlaceOf(k).idx + 2]

\* A table whose only defect is a measurement cell holding two spaces was
\* rejected with NON_NUMERIC_DATA, the cell listed as a non-numeric value.
C30_WhitespaceCellNonNumeric ==
    /\ StructureValidated
    /\ df.columns = <<"Part", "Operator", "M1", "M2">>
    /\ Len(df.rows) = 2
    /\ df.rows[1][3] = StrCell(<<" ", " ">>)
    /\ df.rows[2][3] = FloatCell(Int2Q(1))
    /\ msa_result.error # None
    /\ msa_result.error.code = "NON_NUMERIC_DATA"
    /\ msa_result.error.details = <<[column |-> "M1", row |-> 2, value |-> <<" ", " ">>]>>

\* What holds: a missing (NaN/None) measurement cell is never listed under
\* NON_NUMERIC_DATA.
C30_MissingCellsNeverNonNumeric ==
    StructureValidated =>
        ((msa_result.error # None /\ msa_result.error.code = "NON_NUMERIC_DATA") =>
            \A k \in EmptyMeasurementPlaces :
                IsNa(CellAt(df, PlaceOf(k))) =>
                    \A e \in 1..Len(msa_result.error.details) :
                        ~(/\ msa_result.error.details[e].column = PlaceOf(k).col
                          /\ msa_result.error.details[e].row = PlaceOf(k).idx + 2))

=============================================================================
